---- MODULE Spec2Model ----
(***************************************************************************)
(* Crawlix SEO analyzer: the analysis pipeline (parse, five feature        *)
(* extractors, text analytics, issue detection, statistics, scoring).      *)
(*                                                                         *)
(* Representation.                                                         *)
(*  - A text is a sequence of one-character strings.                       *)
(*  - A string of which the code reads only the length (title,             *)
(*    description) is its length; 0 is the missing / empty string, which   *)
(*    the code cannot tell apart (`x || undefined`, `!x`).                 *)
(*  - An issue message is its fixed wording plus the numbers the template  *)
(*    literal embeds; the constant `suggestion` strings are left out.      *)
(*  - fleschScore is kept in tenths (the code reports toFixed(1)).         *)
(***************************************************************************)
EXTENDS Integers, Sequences, FiniteSets, TLC

VARIABLES
  pc,          \* position of the running call
  html,        \* analyzeSEO argument: the raw document
  url,         \* analyzeSEO argument: the base URL
  doc,         \* parseHTML's result
  allText,     \* extractAllText's result
  metadata, headings, images, links, schema,   \* the five extractors' outputs
  readability, keywords,                       \* the text analytics' outputs
  issues,      \* detectIssues' result
  stats,       \* calculateStatistics' result
  result,      \* the assembled SEOAnalysisResult
  thrown,      \* the errors the running call has raised to its caller
  score,       \* calculateSEOScore's result
  rating,      \* getSEOScoreRating's result
  done,        \* the upstream stages of the running call that have produced output
  last,        \* the upstream stage that produced its output last
  order,       \* the evaluation order of the upstream stages in the running call
  now,         \* the last reading of the wall clock (new Date())
  prev,        \* the call before this one: its arguments and its outcome
  rateLimitMap,  \* proxy route: the rate limiter's record of each client key
  clock,         \* proxy route: Date.now()
  reply,         \* proxy route: the response to the last GET request
  fetchPc,       \* fetchHTMLWithFallback: position of the call
  fetchArg,      \* fetchHTMLWithFallback: its url argument
  fetchLog,      \* fetchHTMLWithFallback: the fetchers the call has invoked, in order
  directResult,  \* fetchHTMLWithFallback: what the awaited directFetch settled with
  fetchOutcome,  \* fetchHTMLWithFallback: what the call returned or threw
  pageUrl,       \* analyzer page: useState url, the text of the input
  isLoading,     \* analyzer page: useState isLoading
  pageError,     \* analyzer page: useState error
  pageResult,    \* analyzer page: useState result
  sitemap,       \* analyzer page: useState sitemap
  showSitemap,   \* analyzer page: useState showSitemap
  running,       \* analyzer page: the urlToAnalyze of the analyzeUrl call awaiting its fetch
  sitemapFetches \* analyzer page: the base URLs of the fetchSitemap promises not yet settled

vars == <<pc, html, url, doc, allText, metadata, headings, images, links, schema,
          readability, keywords, issues, stats, result, thrown, score, rating, done,
          last, order, now, prev, rateLimitMap, clock, reply,
          fetchPc, fetchArg, fetchLog, directResult, fetchOutcome,
          pageUrl, isLoading, pageError, pageResult, sitemap, showSitemap, running,
          sitemapFetches>>

\* The variables of the analysis pipeline, and those of the web application
seoVars == <<pc, html, url, doc, allText, metadata, headings, images, links, schema,
             readability, keywords, issues, stats, result, thrown, score, rating, done,
             last, order, now, prev>>

proxyVars == <<rateLimitMap, clock, reply>>

fetchVars == <<fetchPc, fetchArg, fetchLog, directResult, fetchOutcome>>

pageVars == <<pageUrl, isLoading, pageError, pageResult, sitemap, showSitemap, running,
              sitemapFetches>>

webVars == <<proxyVars, fetchVars, pageVars>>

----------------------------------------------------------------------------
(* Bounds of the model *)

MaxIssuesPerSeverity == 7
MaxScripts == 2
MaxTextLen == 5
MaxClock == 1
MaxHeadingEls == 3
MaxTitleLen == 62
MaxDescriptionLen == 162
MaxLinkEls == 2
MaxChunks == 5
MaxProseChunks == 3
MaxImgEls == 3
MaxMetaEls == 2
MaxTicks == 3
MaxStatEls == 2

----------------------------------------------------------------------------
(* Values *)

Null == [null |-> TRUE]

Min(a, b) == IF a < b THEN a ELSE b
Max(a, b) == IF a > b THEN a ELSE b

Issue(sev, cat, text, args) ==
  [severity |-> sev, category |-> cat, message |-> [text |-> text, args |-> args]]

\* String.prototype.split(/<sep>+/): the pieces between maximal runs of
\* separator characters, empty first / last piece included.
SplitRuns(seps, t) ==
  LET n == Len(t)
      starts == {i \in 1..n : t[i] \notin seps /\ (i = 1 \/ t[i - 1] \in seps)}
      ends == {j \in 1..n : t[j] \notin seps /\ (j = n \/ t[j + 1] \in seps)}
      kth(S, k) == CHOOSE i \in S : Cardinality({j \in S : j < i}) = k - 1
      pieces == [k \in 1..Cardinality(starts) |-> SubSeq(t, kth(starts, k), kth(ends, k))]
  IN  IF n = 0 THEN <<<<>>>>
      ELSE (IF t[1] \in seps THEN <<<<>>>> ELSE <<>>)
             \o pieces
             \o (IF t[n] \in seps THEN <<<<>>>> ELSE <<>>)

Whitespace == {" "}

\* String.prototype.trim()
RECURSIVE TrimLeft(_)
TrimLeft(t) ==
  IF t # <<>> /\ Head(t) \in Whitespace THEN TrimLeft(Tail(t)) ELSE t

RECURSIVE TrimRight(_)
TrimRight(t) ==
  IF t # <<>> /\ t[Len(t)] \in Whitespace
  THEN TrimRight(SubSeq(t, 1, Len(t) - 1)) ELSE t

Trim(t) == TrimRight(TrimLeft(t))

\* text.trim().split(/\s+/).filter(w => w.length > 0)
WordsOf(text) ==
  SelectSeq(SplitRuns(Whitespace, Trim(text)),
            LAMBDA w : Len(w) > 0)

----------------------------------------------------------------------------
(* Text processing.  Texts are lower-case: toLowerCase() changes nothing. *)

Vowels == {"a", "e", "i", "o", "u", "y"}
SentenceEnders == {".", "!", "?"}
Alnum ==
  {"a","b","c","d","e","f","g","h","i","j","k","l","m","n","o","p","q","r","s","t",
   "u","v","w","x","y","z","0","1","2","3","4","5","6","7","8","9"}

\* The number of matches of /[<set>]+/g: the maximal runs of characters of S.
\* inRun tells whether the character before t is one of S; the scan of a text
\* is the scan of its first half followed by the scan of its second half.
RECURSIVE CountRuns(_, _, _)
CountRuns(S, t, inRun) ==
  IF t = <<>> THEN 0
  ELSE IF Len(t) = 1 THEN (IF Head(t) \in S /\ ~inRun THEN 1 ELSE 0)
  ELSE LET h == Len(t) \div 2
       IN  CountRuns(S, SubSeq(t, 1, h), inRun)
             + CountRuns(S, SubSeq(t, h + 1, Len(t)), t[h] \in S)

\* The number of matches of /[aeiouy]{1,2}/g: a run of k vowels holds ceil(k/2)
RECURSIVE CountVowelGroups(_, _)
CountVowelGroups(w, run) ==
  IF w = <<>> THEN (run + 1) \div 2
  ELSE IF Head(w) \in Vowels THEN CountVowelGroups(Tail(w), run + 1)
       ELSE (run + 1) \div 2 + CountVowelGroups(Tail(w), 0)

\* word.replace(/(?:[^laeiouy]es|[^laeiouy]ed|[^laeiouy]e)$/, '')
StripSuffix(w) ==
  LET n == Len(w)
      NotLVowel(ch) == ch \notin (Vowels \cup {"l"})
  IN  IF n >= 3 /\ NotLVowel(w[n - 2]) /\ w[n - 1] = "e" /\ w[n] \in {"s", "d"}
      THEN SubSeq(w, 1, n - 3)
      ELSE IF n >= 2 /\ NotLVowel(w[n - 1]) /\ w[n] = "e"
      THEN SubSeq(w, 1, n - 2)
      ELSE w

\* word.replace(/^y/, '')
StripLeadingY(w) == IF w # <<>> /\ Head(w) = "y" THEN Tail(w) ELSE w

\* countSyllables without the fallback to 1 when no vowel group is matched
countSyllables_NoFallback(word0) ==
  LET word == Trim(word0)
  IN  IF Len(word) <= 3 THEN 1
      ELSE CountVowelGroups(StripLeadingY(StripSuffix(word)), 0)

countSyllables(word0) ==
  LET word == Trim(word0)
  IN  IF Len(word) <= 3 THEN 1
      ELSE LET n == CountVowelGroups(StripLeadingY(StripSuffix(word)), 0)
           IN  IF n > 0 THEN n ELSE 1

IsBlank(text) == Trim(text) = <<>>

countWords(text) == IF IsBlank(text) THEN 0 ELSE Len(WordsOf(text))

\* countSentences counting every '.', '!' and '?' instead of every run of them
countSentences_PerCharacter(text) ==
  IF IsBlank(text) THEN 0
  ELSE LET n == Cardinality({i \in 1..Len(text) : text[i] \in SentenceEnders})
       IN  IF n > 0 THEN n ELSE 1

countSentences(text) ==
  IF IsBlank(text) THEN 0
  ELSE LET n == CountRuns(SentenceEnders, text, FALSE)
       IN  IF n > 0 THEN n ELSE 1

RECURSIVE SumSyllables(_)
SumSyllables(ws) ==
  IF ws = <<>> THEN 0 ELSE countSyllables(Head(ws)) + SumSyllables(Tail(ws))

countTotalSyllables(text) == IF IsBlank(text) THEN 0 ELSE SumSyllables(WordsOf(text))

\* text.replace(/\s+/g, ' ').replace(/[\r\n\t]/g, ' ').trim()
\* inSep tells whether the character before t is whitespace; a text is
\* rewritten first half, then second half.
RECURSIVE CollapseSpaces(_, _)
CollapseSpaces(t, inSep) ==
  IF t = <<>> THEN <<>>
  ELSE IF Len(t) = 1
       THEN (IF Head(t) \in Whitespace THEN (IF inSep THEN <<>> ELSE <<" ">>) ELSE t)
  ELSE LET h == Len(t) \div 2
       IN  CollapseSpaces(SubSeq(t, 1, h), inSep)
             \o CollapseSpaces(SubSeq(t, h + 1, Len(t)), t[h] \in Whitespace)

cleanText(text) == Trim(CollapseSpaces(text, FALSE))

\* text.toLowerCase().split(/[^a-z0-9]+/).filter(word => word.length >= minLength)
tokenize(text, minLength) ==
  IF IsBlank(text) THEN <<>>
  ELSE SelectSeq(SplitRuns({text[i] : i \in 1..Len(text)} \ Alnum, text),
                 LAMBDA word : Len(word) >= minLength)

\* words.join(' ')
RECURSIVE JoinWords(_)
JoinWords(ws) ==
  IF ws = <<>> THEN <<>>
  ELSE IF Len(ws) = 1 THEN Head(ws)
  ELSE Head(ws) \o <<" ">> \o JoinWords(Tail(ws))

generateNGrams(words, n) ==
  IF Len(words) < n THEN <<>>
  ELSE [i \in 1..(Len(words) - n + 1) |-> JoinWords(SubSeq(words, i, i + n - 1))]

\* Number(x.toFixed(k)) of the non-negative rational num/den, in units of
\* 10^-k when num carries the factor 10^k: the nearest integer, a tie upwards
RoundDiv(num, den) == (2 * num + den) \div (2 * den)

calculatePercentage(part, total) ==
  IF total = 0 THEN 0 ELSE RoundDiv(part * 100 * 100, total)

STOP_WORDS ==
  {
    <<"a">>, <<"a","n">>, <<"a","n","d">>, <<"a","r","e">>, <<"a","s">>, <<"a","t">>,
    <<"b","e">>, <<"b","y">>, <<"f","o","r">>, <<"f","r","o","m">>, <<"h","a","s">>,
    <<"h","e">>, <<"i","n">>, <<"i","s">>, <<"i","t">>, <<"i","t","s">>, <<"o","f">>,
    <<"o","n">>, <<"t","h","a","t">>, <<"t","h","e">>, <<"t","o">>, <<"w","a","s">>,
    <<"w","i","l","l">>, <<"w","i","t","h">>, <<"w","e">>, <<"y","o","u">>,
    <<"y","o","u","r">>, <<"t","h","i","s">>, <<"t","h","e","y">>, <<"o","r">>,
    <<"b","u","t">>, <<"n","o","t">>, <<"c","a","n">>, <<"m","a","y">>, <<"i","f">>,
    <<"t","h","e","i","r">>, <<"w","h","i","c","h">>, <<"m","o","r","e">>,
    <<"a","b","o","u","t">>, <<"s","u","c","h">>, <<"b","e","e","n">>,
    <<"w","e","r","e">>, <<"w","o","u","l","d">>, <<"t","h","e","r","e">>,
    <<"t","h","a","n">>, <<"i","n","t","o">>, <<"s","o">>, <<"u","p">>,
    <<"o","u","t">>, <<"w","h","e","n">>, <<"o","n","l","y">>, <<"n","o">>,
    <<"a","l","l">>, <<"d","o">>, <<"d","o","e","s">>, <<"d","i","d">>,
    <<"w","h","a","t">>, <<"w","h","o">>, <<"w","h","o","m">>, <<"w","h","o","s","e">>,
    <<"w","h","e","r","e">>, <<"w","h","y">>, <<"h","o","w">>, <<"o","u","r">>,
    <<"h","i","s">>, <<"h","e","r">>, <<"m","y">>, <<"a","m">>, <<"h","a","v","e">>,
    <<"h","a","d">>, <<"b","e","i","n","g">>, <<"h","a","v","i","n","g">>,
    <<"o","n","e">>, <<"t","w","o">>, <<"t","h","r","e","e">>, <<"f","o","u","r">>,
    <<"f","i","v","e">>, <<"s","o","m","e">>, <<"a","n","y">>, <<"e","a","c","h">>,
    <<"e","v","e","r","y">>, <<"e","i","t","h","e","r">>,
    <<"n","e","i","t","h","e","r">>, <<"b","o","t","h">>, <<"o","t","h","e","r">>,
    <<"a","n","o","t","h","e","r">>, <<"t","h","e","s","e">>, <<"t","h","o","s","e">>,
    <<"i">>, <<"m","e">>, <<"h","i","m">>
  }

----------------------------------------------------------------------------
(* Readability.  The Flesch value 206.835 - 1.015 (w/s) - 84.6 (y/w) is kept
   as the exact fraction num/den with den = 1000 s w; fleschScore is reported
   in tenths, avgWordsPerSentence in tenths, avgSyllablesPerWord in
   hundredths. *)

getGradeLevel(num, den) ==
  IF num >= 90 * den THEN "5th grade"
  ELSE IF num >= 80 * den THEN "6th grade"
  ELSE IF num >= 70 * den THEN "7th grade"
  ELSE IF num >= 60 * den THEN "8th-9th grade"
  ELSE IF num >= 50 * den THEN "10th-12th grade"
  ELSE IF num >= 30 * den THEN "College level"
  ELSE "College graduate"

getInterpretation(num, den) ==
  IF num >= 90 * den THEN "Very Easy to read. Easily understood by an average 11-year-old student."
  ELSE IF num >= 80 * den THEN "Easy to read. Conversational English for consumers."
  ELSE IF num >= 70 * den THEN "Fairly Easy to read."
  ELSE IF num >= 60 * den THEN "Plain English. Easily understood by 13- to 15-year-old students."
  ELSE IF num >= 50 * den THEN "Fairly Difficult to read."
  ELSE IF num >= 30 * den THEN "Difficult to read."
  ELSE "Very Difficult to read. Best understood by university graduates."

FleschNum(words, sentences, syllables) ==
  206835 * sentences * words - 1015 * words * words - 84600 * syllables * sentences

FleschDen(words, sentences) == 1000 * sentences * words

calculateReadability_NoClamp(text) ==
  IF IsBlank(text)
  THEN [fleschScore |-> 0, gradeLevel |-> "N/A", interpretation |-> "No text content found",
        statistics |-> [sentences |-> 0, words |-> 0, syllables |-> 0,
                        avgWordsPerSentence |-> 0, avgSyllablesPerWord |-> 0]]
  ELSE LET sentences == countSentences(text)
           words     == countWords(text)
           syllables == countTotalSyllables(text)
       IN  IF sentences = 0 \/ words = 0
           THEN [fleschScore |-> 0, gradeLevel |-> "N/A",
                 interpretation |-> "Insufficient text for analysis",
                 statistics |-> [sentences |-> sentences, words |-> words,
                                 syllables |-> syllables,
                                 avgWordsPerSentence |-> 0, avgSyllablesPerWord |-> 0]]
           ELSE LET num == FleschNum(words, sentences, syllables)
                    den == FleschDen(words, sentences)
                IN  [fleschScore |-> IF num >= 0 THEN RoundDiv(10 * num, den)
                                     ELSE 0 - RoundDiv(10 * (0 - num), den),
                     gradeLevel |-> getGradeLevel(num, den),
                     interpretation |-> getInterpretation(num, den),
                     statistics |-> [sentences |-> sentences, words |-> words,
                                     syllables |-> syllables,
                                     avgWordsPerSentence |-> RoundDiv(10 * words, sentences),
                                     avgSyllablesPerWord |-> RoundDiv(100 * syllables, words)]]

\* No early return for blank text: it falls to the zero-count guard
calculateReadability_NoBlankCheck(text) ==
  LET sentences == countSentences(text)
      words     == countWords(text)
      syllables == countTotalSyllables(text)
  IN  IF sentences = 0 \/ words = 0
      THEN [fleschScore |-> 0, gradeLevel |-> "N/A",
            interpretation |-> "Insufficient text for analysis",
            statistics |-> [sentences |-> sentences, words |-> words,
                            syllables |-> syllables,
                            avgWordsPerSentence |-> 0, avgSyllablesPerWord |-> 0]]
      ELSE LET num == FleschNum(words, sentences, syllables)
               den == FleschDen(words, sentences)
               cnum == IF num < 0 THEN 0 ELSE IF num > 100 * den THEN 100 * den ELSE num
           IN  [fleschScore |-> RoundDiv(10 * cnum, den),
                gradeLevel |-> getGradeLevel(cnum, den),
                interpretation |-> getInterpretation(cnum, den),
                statistics |-> [sentences |-> sentences, words |-> words,
                                syllables |-> syllables,
                                avgWordsPerSentence |-> RoundDiv(10 * words, sentences),
                                avgSyllablesPerWord |-> RoundDiv(100 * syllables, words)]]

calculateReadability(text) ==
  IF IsBlank(text)
  THEN [fleschScore |-> 0, gradeLevel |-> "N/A", interpretation |-> "No text content found",
        statistics |-> [sentences |-> 0, words |-> 0, syllables |-> 0,
                        avgWordsPerSentence |-> 0, avgSyllablesPerWord |-> 0]]
  ELSE LET sentences == countSentences(text)
           words     == countWords(text)
           syllables == countTotalSyllables(text)
       IN  IF sentences = 0 \/ words = 0
           THEN [fleschScore |-> 0, gradeLevel |-> "N/A",
                 interpretation |-> "Insufficient text for analysis",
                 statistics |-> [sentences |-> sentences, words |-> words,
                                 syllables |-> syllables,
                                 avgWordsPerSentence |-> 0, avgSyllablesPerWord |-> 0]]
           ELSE LET num == FleschNum(words, sentences, syllables)
                    den == FleschDen(words, sentences)
                    \* Math.max(0, Math.min(100, fleschScore))
                    cnum == IF num < 0 THEN 0 ELSE IF num > 100 * den THEN 100 * den ELSE num
                IN  [fleschScore |-> RoundDiv(10 * cnum, den),
                     gradeLevel |-> getGradeLevel(cnum, den),
                     interpretation |-> getInterpretation(cnum, den),
                     statistics |-> [sentences |-> sentences, words |-> words,
                                     syllables |-> syllables,
                                     avgWordsPerSentence |-> RoundDiv(10 * words, sentences),
                                     avgSyllablesPerWord |-> RoundDiv(100 * syllables, words)]]

----------------------------------------------------------------------------
(* Keyword density *)

MIN_WORD_LENGTH == 3
MAX_RESULTS_PER_NGRAM == 20
MIN_OCCURRENCES == 2

\* The keys of calculateWordFrequency's Map, in insertion order
RECURSIVE DistinctInOrder(_, _)
DistinctInOrder(xs, seen) ==
  IF xs = <<>> THEN <<>>
  ELSE IF Head(xs) \in seen THEN DistinctInOrder(Tail(xs), seen)
       ELSE <<Head(xs)>> \o DistinctInOrder(Tail(xs), seen \cup {Head(xs)})

Occurrences(xs, x) == Cardinality({i \in 1..Len(xs) : xs[i] = x})

\* keywords.sort((a, b) => b.count - a.count): stable, descending by count
RECURSIVE InsertByCount(_, _)
InsertByCount(sorted, k) ==
  IF sorted = <<>> THEN <<k>>
  ELSE IF Head(sorted).count >= k.count
       THEN <<Head(sorted)>> \o InsertByCount(Tail(sorted), k)
       ELSE <<k>> \o sorted

RECURSIVE SortByCount(_, _)
SortByCount(ks, sorted) ==
  IF ks = <<>> THEN sorted ELSE SortByCount(Tail(ks), InsertByCount(sorted, Head(ks)))

\* The percentage of every n-gram taken of the number of filtered words
analyzeNGram_WordTotal(words, n, totalWords) ==
  LET ngrams == generateNGrams(words, n)
  IN  IF Len(ngrams) = 0 THEN <<>>
      ELSE LET phrases == DistinctInOrder(ngrams, {})
               all == [i \in 1..Len(phrases) |->
                         [phrase |-> phrases[i],
                          count |-> Occurrences(ngrams, phrases[i]),
                          percentage |-> calculatePercentage(Occurrences(ngrams, phrases[i]),
                                                             totalWords),
                          nGram |-> n]]
               kept == SelectSeq(all, LAMBDA k : k.count >= MIN_OCCURRENCES)
               sorted == SortByCount(kept, <<>>)
           IN  SubSeq(sorted, 1, Min(Len(sorted), MAX_RESULTS_PER_NGRAM))

\* The entries in the order the frequency map yields them, none cut off
analyzeNGram_Raw(words, n, totalWords) ==
  LET ngrams == generateNGrams(words, n)
  IN  IF Len(ngrams) = 0 THEN <<>>
      ELSE LET phrases == DistinctInOrder(ngrams, {})
               adjustedTotal == IF n = 1 THEN totalWords ELSE Len(ngrams)
               all == [i \in 1..Len(phrases) |->
                         [phrase |-> phrases[i],
                          count |-> Occurrences(ngrams, phrases[i]),
                          percentage |-> calculatePercentage(Occurrences(ngrams, phrases[i]),
                                                             adjustedTotal),
                          nGram |-> n]]
           IN  SelectSeq(all, LAMBDA k : k.count >= MIN_OCCURRENCES)

analyzeNGram(words, n, totalWords) ==
  LET ngrams == generateNGrams(words, n)
  IN  IF Len(ngrams) = 0 THEN <<>>
      ELSE LET phrases == DistinctInOrder(ngrams, {})
               adjustedTotal == IF n = 1 THEN totalWords ELSE Len(ngrams)
               all == [i \in 1..Len(phrases) |->
                         [phrase |-> phrases[i],
                          count |-> Occurrences(ngrams, phrases[i]),
                          percentage |-> calculatePercentage(Occurrences(ngrams, phrases[i]),
                                                             adjustedTotal),
                          nGram |-> n]]
               kept == SelectSeq(all, LAMBDA k : k.count >= MIN_OCCURRENCES)
               sorted == SortByCount(kept, <<>>)
           IN  SubSeq(sorted, 1, Min(Len(sorted), MAX_RESULTS_PER_NGRAM))

\* The windows of size 2 and 3 slide over the unfiltered tokens; a window that
\* holds a short token or a stop word is dropped afterwards
analyzeKeywords_WindowsOverRaw(text) ==
  IF IsBlank(text) THEN <<>>
  ELSE LET raw == tokenize(text, 1)
           words == tokenize(text, MIN_WORD_LENGTH)
           filteredWords == SelectSeq(words, LAMBDA word : word \notin STOP_WORDS)
           totalWords == Len(filteredWords)
           clean(k) == \A w \in 1..Len(WordsOf(k.phrase)) :
                         /\ Len(WordsOf(k.phrase)[w]) >= MIN_WORD_LENGTH
                         /\ WordsOf(k.phrase)[w] \notin STOP_WORDS
       IN  IF totalWords = 0 THEN <<>>
           ELSE analyzeNGram(filteredWords, 1, totalWords)
                  \o SelectSeq(analyzeNGram(raw, 2, totalWords), clean)
                  \o SelectSeq(analyzeNGram(raw, 3, totalWords), clean)

analyzeKeywords(text) ==
  IF IsBlank(text) THEN <<>>
  ELSE LET words == tokenize(text, MIN_WORD_LENGTH)
           filteredWords == SelectSeq(words, LAMBDA word : word \notin STOP_WORDS)
           totalWords == Len(filteredWords)
       IN  IF totalWords = 0 THEN <<>>
           ELSE analyzeNGram(filteredWords, 1, totalWords)
                  \o analyzeNGram(filteredWords, 2, totalWords)
                  \o analyzeNGram(filteredWords, 3, totalWords)

----------------------------------------------------------------------------
(* JavaScript values the extractors handle *)

\* An attribute / optional field that is null or undefined, and one holding v
Absent == [absent |-> TRUE]
Some(v) == [absent |-> FALSE, value |-> v]

\* JSON values as JSON.parse builds them
JNull == [t |-> "null"]
JUndefined == [t |-> "undefined"]
JStr(s) == [t |-> "string", v |-> s]
JNum(n) == [t |-> "number", v |-> n]
JArr(a) == [t |-> "array", v |-> a]
JObj(f) == [t |-> "object", v |-> f]

\* ToBoolean
Truthy(j) ==
  CASE j.t \in {"null", "undefined"} -> FALSE
    [] j.t = "string" -> j.v # ""
    [] j.t = "number" -> j.v # 0
    [] OTHER -> TRUE

\* j[key]; reading a property of null or undefined throws a TypeError
ThrowsOnGet(j) == j.t \in {"null", "undefined"}
Get(j, key) ==
  IF j.t = "object" /\ key \in DOMAIN j.v THEN j.v[key] ELSE JUndefined

\* The JSON-LD script bodies of the model and what JSON.parse makes of each
ScriptTexts ==
  { "", "  ", "{bad", "null",
    "{\"@type\":\"Article\"}",
    "{\"@type\":[\"Article\",\"Person\"]}",
    "{\"@context\":\"https://schema.org\"}",
    "{\"@graph\":[{\"@type\":\"WebSite\"},{},{\"@type\":[\"A\",\"B\"]}]}",
    "{\"@graph\":[null]}",
    "{\"@graph\":[]}" }

BlankTexts == {"", "  "}

JSONParse(raw) ==
  CASE raw = "null" -> [ok |-> TRUE, value |-> JNull]
    [] raw = "{\"@type\":\"Article\"}" ->
         [ok |-> TRUE, value |-> JObj("@type" :> JStr("Article"))]
    [] raw = "{\"@type\":[\"Article\",\"Person\"]}" ->
         [ok |-> TRUE, value |-> JObj("@type" :> JArr(<<JStr("Article"), JStr("Person")>>))]
    [] raw = "{\"@context\":\"https://schema.org\"}" ->
         [ok |-> TRUE, value |-> JObj("@context" :> JStr("https://schema.org"))]
    [] raw = "{\"@graph\":[{\"@type\":\"WebSite\"},{},{\"@type\":[\"A\",\"B\"]}]}" ->
         [ok |-> TRUE,
          value |-> JObj("@graph" :> JArr(<<JObj("@type" :> JStr("WebSite")),
                                            JObj(<<>>),
                                            JObj("@type" :> JArr(<<JStr("A"), JStr("B")>>))>>))]
    [] raw = "{\"@graph\":[null]}" ->
         [ok |-> TRUE, value |-> JObj("@graph" :> JArr(<<JNull>>))]
    [] raw = "{\"@graph\":[]}" ->
         [ok |-> TRUE, value |-> JObj("@graph" :> JArr(<<>>))]
    [] OTHER -> [ok |-> FALSE, message |-> "Unexpected token"]

\* A string built by Array.prototype.join(', '): the sequence of its parts
ToStr(j) == IF j.t = "string" THEN j.v ELSE ""
Joined(arr) == [i \in 1..Len(arr) |-> ToStr(arr[i])]

\* Array.prototype.flat(): one level
RECURSIVE Flat(_)
Flat(arr) ==
  IF arr = <<>> THEN <<>>
  ELSE (IF Head(arr).t = "array" THEN Head(arr).v ELSE <<Head(arr)>>) \o Flat(Tail(arr))

----------------------------------------------------------------------------
(* The document view.  A parsed document is a record
     title     the trimmed text of <title>, as its length (0: none / empty)
     lang      the lang attribute of <html>
     metas     the <meta> elements, in document order
     rels      the <link> elements, in document order
     headingEls, imgEls, linkEls   the h1..h6, img and a[href] elements
     scripts   the text of the script[type="application/ld+json"] elements
     bodyText  the text nodes of <body> outside script/style/..., concatenated
   An element carries the attributes the code reads. *)

Shown == [hidden |-> FALSE, ariaHidden |-> Absent, display |-> "block", visibility |-> "visible"]

\* The ways an element is, or is not, taken out of view
Visibilities ==
  { Shown,
    [Shown EXCEPT !.hidden = TRUE],
    [Shown EXCEPT !.ariaHidden = Some("true")],
    [Shown EXCEPT !.ariaHidden = Some("false")],
    [Shown EXCEPT !.display = "none"],
    [Shown EXCEPT !.visibility = "hidden"] }

isElementVisible_AttributesOnly(el) ==
  /\ ~el.vis.hidden
  /\ el.vis.ariaHidden # Some("true")

isElementVisible(el) ==
  /\ ~el.vis.hidden
  /\ el.vis.ariaHidden # Some("true")
  /\ ~(el.vis.display = "none" \/ el.vis.visibility = "hidden")

EmptyDom ==
  [title |-> 0, lang |-> Absent, metas |-> <<>>, rels |-> <<>>, headingEls |-> <<>>,
   imgEls |-> <<>>, linkEls |-> <<>>, scripts |-> <<>>, bodyText |-> <<>>]

\* Sequences over S of length at most n
SeqsUpTo(S, n) == UNION {[1..k -> S] : k \in 0..n}

----------------------------------------------------------------------------
(* Strings the extractors inspect.  A URL, an attribute name or a rel value
   is a string of the finite vocabulary below; startsWith, toLowerCase,
   includes and the URL constructor are given by their values on it. *)

(* hrefs:     "", "#top", "/about", "about.html", "https://example.com/a",
              "http://example.com/b", "https://other.org/", "//cdn.other.org/x",
              "ftp://example.com/f", "mailto:a@example.com", "javascript:void(0)",
              "tel:123"
   base URLs: "https://example.com/", "https://other.org/page", "not a url"
   rel:       "nofollow", "NoFollow noopener", "noopener" *)

\* href.startsWith(prefix)
StartsWith(href, prefix) ==
  CASE prefix = "#"           -> href \in {"#top"}
    [] prefix = "/"           -> href \in {"/about", "//cdn.other.org/x"}
    [] prefix = "//"          -> href \in {"//cdn.other.org/x"}
    [] prefix = "http://"     -> href \in {"http://example.com/b"}
    [] prefix = "https://"    -> href \in {"https://example.com/a", "https://other.org/",
                                           "https://example.com/", "https://other.org/page"}
    [] prefix = "javascript:" -> href \in {"javascript:void(0)"}
    [] prefix = "mailto:"     -> href \in {"mailto:a@example.com"}
    [] prefix = "tel:"        -> href \in {"tel:123"}
    [] prefix = "og:"         -> href \in {"og:title", "og:image"}
    [] prefix = "twitter:"    -> href \in {"twitter:card"}
    [] OTHER -> FALSE

\* new URL(url).hostname, '' when the constructor throws
getHostname(u) ==
  CASE u \in {"https://example.com/a", "http://example.com/b", "https://example.com/",
              "ftp://example.com/f"} -> "example.com"
    [] u \in {"https://other.org/", "https://other.org/page"} -> "other.org"
    [] u \in {"mailto:a@example.com", "javascript:void(0)", "tel:123"} -> ""
    [] OTHER -> ""

isInternalLink(href, baseUrl) ==
  IF href = "" THEN FALSE
  ELSE IF StartsWith(href, "#") THEN TRUE
  ELSE IF StartsWith(href, "/") /\ ~StartsWith(href, "//") THEN TRUE
  ELSE IF ~StartsWith(href, "http://") /\ ~StartsWith(href, "https://")
          /\ ~StartsWith(href, "//") THEN TRUE
  ELSE getHostname(href) = getHostname(baseUrl)

\* new URL(href, new URL(baseUrl)).href, href itself when a constructor throws
resolveUrl(href, baseUrl) ==
  IF href = "" THEN ""
  ELSE IF StartsWith(href, "http://") \/ StartsWith(href, "https://") THEN href
  ELSE IF baseUrl = "not a url" THEN href
  ELSE CASE href = "/about" ->
              IF baseUrl = "https://example.com/" THEN "https://example.com/about"
              ELSE "https://other.org/about"
         [] href = "about.html" ->
              IF baseUrl = "https://example.com/" THEN "https://example.com/about.html"
              ELSE "https://other.org/about.html"
         [] href = "//cdn.other.org/x" -> "https://cdn.other.org/x"
         [] href = "#top" ->
              IF baseUrl = "https://example.com/" THEN "https://example.com/#top"
              ELSE "https://other.org/page#top"
         [] OTHER -> href

\* rel.toLowerCase().includes('nofollow')
hasNoFollow(rel) == ~rel.absent /\ rel.value \in {"nofollow", "NoFollow noopener"}

\* name.toLowerCase()
ToLowerCase(name) == IF name = "Description" THEN "description" ELSE name

\* parseInt(s)
parseInt(str) ==
  CASE str = "640" -> [nan |-> FALSE, n |-> 640]
    [] str = "480px" -> [nan |-> FALSE, n |-> 480]
    [] OTHER -> [nan |-> TRUE]

\* x || undefined for an optional string / text / length
OrUndefinedStr(a) == IF a.absent \/ a.value = "" THEN Absent ELSE a
OrUndefinedText(a) == IF a.absent \/ a.value = <<>> THEN Absent ELSE a
OrUndefinedLen(n) == IF n = 0 THEN Absent ELSE Some(n)

----------------------------------------------------------------------------
(* Meta extractor.  A <meta> element is
     [name, property: string ("" when absent), content: length (0 when absent
      or empty), charset: optional string, httpEquiv: optional string,
      contentCharset: what /charset=([^;]+)/i captures in content, trimmed] *)

Meta(name, property, content) ==
  [name |-> name, property |-> property, content |-> content, charset |-> Absent,
   httpEquiv |-> Absent, contentCharset |-> Absent]

\* doc.querySelector(sel): the first of the indices of the matching elements,
\* 0 if there is none
FirstIndex(matching) ==
  IF matching = {} THEN 0
  ELSE CHOOSE i \in matching : \A j \in matching : i <= j

getMetaContent(d, nameOrProperty) ==
  LET byName == FirstIndex({k \in 1..Len(d.metas) : d.metas[k].name = nameOrProperty})
      byProp == FirstIndex({k \in 1..Len(d.metas) : d.metas[k].property = nameOrProperty})
      i == IF byName # 0 THEN byName ELSE byProp
  IN  IF i = 0 THEN Absent ELSE OrUndefinedLen(d.metas[i].content)

getTitle(d) == OrUndefinedLen(d.title)

getLanguage(d) == OrUndefinedStr(d.lang)

getCanonicalUrl(d) ==
  LET i == FirstIndex({k \in 1..Len(d.rels) : d.rels[k].rel = "canonical"})
  IN  IF i = 0 THEN Absent ELSE OrUndefinedStr(d.rels[i].href)

RECURSIVE FirstFavicon(_, _)
FirstFavicon(d, selectors) ==
  IF selectors = <<>> THEN Absent
  ELSE LET i == FirstIndex({k \in 1..Len(d.rels) : d.rels[k].rel = Head(selectors)})
       IN  IF i # 0 THEN OrUndefinedStr(d.rels[i].href)
           ELSE FirstFavicon(d, Tail(selectors))

getFaviconUrl(d) == FirstFavicon(d, <<"icon", "shortcut icon", "apple-touch-icon">>)

getCharset(d) ==
  LET i == FirstIndex({k \in 1..Len(d.metas) : ~d.metas[k].charset.absent})
      j == FirstIndex({k \in 1..Len(d.metas) : d.metas[k].httpEquiv = Some("Content-Type")})
  IN  IF i # 0 THEN OrUndefinedStr(d.metas[i].charset)
      ELSE IF j # 0 /\ d.metas[j].content # 0 THEN d.metas[j].contentCharset
      ELSE Absent

getOpenGraphTags(d) ==
  LET tags == SelectSeq(d.metas, LAMBDA m : StartsWith(m.property, "og:"))
  IN  [i \in 1..Len(tags) |-> [property |-> tags[i].property, content |-> tags[i].content]]

getTwitterCardTags(d) ==
  LET tags == SelectSeq(d.metas, LAMBDA m : StartsWith(m.name, "twitter:"))
  IN  [i \in 1..Len(tags) |-> [name |-> tags[i].name, content |-> tags[i].content]]

excludedNames == {"description", "keywords", "robots", "viewport"}

extractOtherMetaTags(d) ==
  LET keep(m) ==
        /\ m.content # 0
        /\ ~(m.property # "" /\ (StartsWith(m.property, "og:") \/ StartsWith(m.property, "twitter:")))
        /\ ~(m.name # "" /\ (StartsWith(m.name, "og:") \/ StartsWith(m.name, "twitter:")))
        /\ ~(m.name # "" /\ ToLowerCase(m.name) \in excludedNames)
        /\ ~(~m.charset.absent \/ ~m.httpEquiv.absent)
      tags == SelectSeq(d.metas, keep)
  IN  [i \in 1..Len(tags) |->
         [name |-> OrUndefinedStr(Some(tags[i].name)),
          property |-> OrUndefinedStr(Some(tags[i].property)),
          content |-> tags[i].content]]

extractMetadata(d) ==
  [title        |-> getTitle(d),
   description  |-> getMetaContent(d, "description"),
   keywords     |-> getMetaContent(d, "keywords"),
   robots       |-> getMetaContent(d, "robots"),
   viewport     |-> getMetaContent(d, "viewport"),
   charset      |-> getCharset(d),
   language     |-> getLanguage(d),
   canonicalUrl |-> getCanonicalUrl(d),
   favicon      |-> getFaviconUrl(d),
   ogTags       |-> getOpenGraphTags(d),
   twitterTags  |-> getTwitterCardTags(d),
   other        |-> extractOtherMetaTags(d)]

----------------------------------------------------------------------------
(* Headings extractor.  A heading element is [vis, level: the digit of its
   tag name, text: its textContent]. *)

getTextContentSafe(el) == Trim(el.text)

\* analyzeHeadings keeping the visible headings whose trimmed text is empty
RECURSIVE analyzeHeadingsLoop_KeepEmpty(_, _)
analyzeHeadingsLoop_KeepEmpty(els, hs) ==
  IF els = <<>> THEN hs
  ELSE LET element == Head(els)
           text == getTextContentSafe(element)
       IN  IF ~isElementVisible(element) THEN analyzeHeadingsLoop_KeepEmpty(Tail(els), hs)
           ELSE analyzeHeadingsLoop_KeepEmpty(Tail(els),
                  Append(hs, [level |-> element.level, text |-> text,
                              wordCount |-> countWords(text)]))

RECURSIVE analyzeHeadingsLoop(_, _)
analyzeHeadingsLoop(els, hs) ==
  IF els = <<>> THEN hs
  ELSE LET element == Head(els)
           text == getTextContentSafe(element)
       IN  IF ~isElementVisible(element) THEN analyzeHeadingsLoop(Tail(els), hs)
           ELSE IF text = <<>> THEN analyzeHeadingsLoop(Tail(els), hs)
           ELSE analyzeHeadingsLoop(Tail(els),
                  Append(hs, [level |-> element.level, text |-> text,
                              wordCount |-> countWords(text)]))

analyzeHeadings(d) == analyzeHeadingsLoop(d.headingEls, <<>>)

\* checkSkippedLevels comparing the levels in both directions
checkSkippedLevels_AnyJump(hs) ==
  \E i \in 2..Len(hs) : \/ hs[i].level > hs[i - 1].level + 1
                        \/ hs[i - 1].level > hs[i].level + 1

RECURSIVE checkSkippedLevels(_)
checkSkippedLevels(hs) ==
  IF Len(hs) < 2 THEN FALSE
  ELSE IF hs[2].level > hs[1].level + 1 THEN TRUE
  ELSE checkSkippedLevels(Tail(hs))

detectHeadingIssues(hs) ==
  LET h1Count == Len(SelectSeq(hs, LAMBDA h : h.level = 1))
  IN  [hasMultipleH1 |-> h1Count > 1,
       hasNoH1 |-> h1Count = 0,
       hasSkippedLevels |-> checkSkippedLevels(hs)]

----------------------------------------------------------------------------
(* Images extractor.  An image element is [vis, src, alt, title, width,
   height, loading], each attribute optional. *)

RECURSIVE analyzeImagesLoop(_, _)
analyzeImagesLoop(els, imgs) ==
  IF els = <<>> THEN imgs
  ELSE LET img == Head(els)
       IN  IF ~isElementVisible(img) THEN analyzeImagesLoop(Tail(els), imgs)
           ELSE IF img.src.absent \/ img.src.value = "" THEN analyzeImagesLoop(Tail(els), imgs)
           ELSE analyzeImagesLoop(Tail(els),
                  Append(imgs,
                    [src |-> img.src.value,
                     alt |-> OrUndefinedText(img.alt),
                     title |-> OrUndefinedStr(img.title),
                     width |-> IF img.width.absent \/ img.width.value = "" THEN Absent
                               ELSE Some(parseInt(img.width.value)),
                     height |-> IF img.height.absent \/ img.height.value = "" THEN Absent
                                ELSE Some(parseInt(img.height.value)),
                     loading |-> IF img.loading \in {Some("lazy"), Some("eager")}
                                 THEN img.loading ELSE Absent]))

analyzeImages(d) == analyzeImagesLoop(d.imgEls, <<>>)

----------------------------------------------------------------------------
(* Links extractor.  A link element is [vis, href, text, rel, target]. *)

AnchorTextMax == 200

RECURSIVE analyzeLinksLoop(_, _, _)
analyzeLinksLoop(els, baseUrl, ls) ==
  IF els = <<>> THEN ls
  ELSE LET link == Head(els)
           href == link.href
           trimmed == getTextContentSafe(link)
           anchorText == SubSeq(trimmed, 1, Min(Len(trimmed), AnchorTextMax))
           type == IF StartsWith(href.value, "#") THEN "anchor"
                   ELSE IF isInternalLink(href.value, baseUrl) THEN "internal"
                   ELSE "external"
       IN  IF ~isElementVisible(link) THEN analyzeLinksLoop(Tail(els), baseUrl, ls)
           ELSE IF href.absent \/ href.value = "" THEN analyzeLinksLoop(Tail(els), baseUrl, ls)
           ELSE IF \/ StartsWith(href.value, "javascript:")
                   \/ StartsWith(href.value, "mailto:")
                   \/ StartsWith(href.value, "tel:")
                THEN analyzeLinksLoop(Tail(els), baseUrl, ls)
           ELSE IF anchorText = <<>> THEN analyzeLinksLoop(Tail(els), baseUrl, ls)
           ELSE analyzeLinksLoop(Tail(els), baseUrl,
                  Append(ls,
                    [href |-> IF type = "anchor" THEN href.value
                              ELSE resolveUrl(href.value, baseUrl),
                     anchorText |-> anchorText,
                     type |-> type,
                     rel |-> OrUndefinedStr(link.rel),
                     target |-> OrUndefinedStr(link.target),
                     nofollow |-> hasNoFollow(link.rel)]))

analyzeLinks(d, baseUrl) == analyzeLinksLoop(d.linkEls, baseUrl, <<>>)

GenericAnchorPatterns ==
  { <<"c","l","i","c","k"," ","h","e","r","e">>,
    <<"r","e","a","d"," ","m","o","r","e">>,
    <<"l","e","a","r","n"," ","m","o","r","e">>,
    <<"m","o","r","e">>,
    <<"h","e","r","e">>,
    <<"t","h","i","s">>,
    <<"l","i","n","k">>,
    <<"c","l","i","c","k">> }

findGenericAnchorLinks(ls) ==
  SelectSeq(ls, LAMBDA link : Trim(link.anchorText) \in GenericAnchorPatterns)

----------------------------------------------------------------------------
(* Schema extractor *)

Unknown == <<"Unknown">>

\* [threw |-> TRUE] when the code raises, else the type it returns
extractSchemaType(parsed) ==
  IF ~Truthy(parsed) THEN [threw |-> FALSE, type |-> Unknown]
  ELSE IF Truthy(Get(parsed, "@type"))
  THEN [threw |-> FALSE,
        type  |-> IF Get(parsed, "@type").t = "array"
                  THEN Joined(Get(parsed, "@type").v)
                  ELSE <<ToStr(Get(parsed, "@type"))>>]
  ELSE LET graph == Get(parsed, "@graph")
       IN  IF Truthy(graph) /\ graph.t = "array" /\ Len(graph.v) > 0
           THEN IF \E i \in 1..Len(graph.v) : ThrowsOnGet(graph.v[i])
                THEN [threw |-> TRUE, message |-> "Cannot read properties of null"]
                ELSE LET mapped == [i \in 1..Len(graph.v) |-> Get(graph.v[i], "@type")]
                         types  == Flat(SelectSeq(mapped, Truthy))
                     IN  [threw |-> FALSE,
                          type |-> IF Len(types) > 0 THEN Joined(types) ELSE Unknown]
           ELSE [threw |-> FALSE, type |-> Unknown]

InvalidSchema(rawJson, message) ==
  [type |-> Unknown, rawJson |-> rawJson, parsed |-> JNull, isValid |-> FALSE,
   error |-> Some(message)]

\* The body of the loop of parseSchema for one script: the records it pushes
parseSchemaScript(rawJson) ==
  IF rawJson \in BlankTexts THEN <<>>
  ELSE LET p == JSONParse(rawJson)
       IN  IF ~p.ok THEN <<InvalidSchema(rawJson, p.message)>>
           ELSE LET ty == extractSchemaType(p.value)
                IN  IF ty.threw THEN <<InvalidSchema(rawJson, ty.message)>>
                    ELSE <<[type |-> ty.type, rawJson |-> rawJson, parsed |-> p.value,
                            isValid |-> TRUE, error |-> Absent]>>

\* A parser with no try/catch around JSON.parse: the first bad script ends the loop
RECURSIVE parseSchemaLoop_Abort(_, _)
parseSchemaLoop_Abort(scripts, schemas) ==
  IF scripts = <<>> THEN schemas
  ELSE IF Head(scripts) \notin BlankTexts /\ ~JSONParse(Head(scripts)).ok THEN schemas
  ELSE parseSchemaLoop_Abort(Tail(scripts), schemas \o parseSchemaScript(Head(scripts)))

RECURSIVE parseSchemaLoop(_, _)
parseSchemaLoop(scripts, schemas) ==
  IF scripts = <<>> THEN schemas
  ELSE parseSchemaLoop(Tail(scripts), schemas \o parseSchemaScript(Head(scripts)))

\* d.scripts: the text of every script[type="application/ld+json"], in document order
parseSchema(d) == parseSchemaLoop(d.scripts, <<>>)

----------------------------------------------------------------------------
(* Issue detector *)

TitleMin == 30
TitleMax == 60
DescriptionMin == 120
DescriptionMax == 160
ExternalFollowMax == 20

\* !x for an optional length
MissingLen(a) == a.absent \/ a.value = 0

checkTitle_Inclusive(md) ==
  IF MissingLen(md.title)
  THEN <<Issue("critical", "meta", "Missing page title", <<>>)>>
  ELSE IF md.title.value <= TitleMin
  THEN <<Issue("warning", "meta", "Title is too short", <<md.title.value>>)>>
  ELSE IF md.title.value >= TitleMax
  THEN <<Issue("warning", "meta", "Title is too long", <<md.title.value>>)>>
  ELSE <<>>

checkTitle(md) ==
  IF MissingLen(md.title)
  THEN <<Issue("critical", "meta", "Missing page title", <<>>)>>
  ELSE IF md.title.value < TitleMin
  THEN <<Issue("warning", "meta", "Title is too short", <<md.title.value>>)>>
  ELSE IF md.title.value > TitleMax
  THEN <<Issue("warning", "meta", "Title is too long", <<md.title.value>>)>>
  ELSE <<>>

checkDescription(md) ==
  IF MissingLen(md.description)
  THEN <<Issue("warning", "meta", "Missing meta description", <<>>)>>
  ELSE IF md.description.value < DescriptionMin
  THEN <<Issue("warning", "meta", "Meta description is too short", <<md.description.value>>)>>
  ELSE IF md.description.value > DescriptionMax
  THEN <<Issue("recommendation", "meta", "Meta description is too long", <<md.description.value>>)>>
  ELSE <<>>

checkMetaIssues(md) ==
  checkTitle(md)
    \o checkDescription(md)
    \o (IF md.canonicalUrl.absent \/ md.canonicalUrl.value = ""
        THEN <<Issue("recommendation", "meta", "Missing canonical URL", <<>>)>> ELSE <<>>)
    \o (IF MissingLen(md.viewport)
        THEN <<Issue("warning", "meta", "Missing viewport meta tag", <<>>)>> ELSE <<>>)
    \o (IF md.language.absent \/ md.language.value = ""
        THEN <<Issue("recommendation", "meta", "Missing language attribute", <<>>)>> ELSE <<>>)
    \o (IF Len(md.ogTags) = 0
        THEN <<Issue("recommendation", "meta", "Missing Open Graph tags", <<>>)>> ELSE <<>>)

checkHeadingIssues_Unguarded(hs) ==
  LET headingProblems == detectHeadingIssues(hs)
      h1Count == Len(SelectSeq(hs, LAMBDA h : h.level = 1))
  IN  <<Issue("critical", "structure", "Multiple H1 tags found", <<h1Count>>)>>
      \o (IF headingProblems.hasNoH1
          THEN <<Issue("critical", "structure", "No H1 tag found", <<>>)>> ELSE <<>>)
      \o (IF headingProblems.hasSkippedLevels
          THEN <<Issue("warning", "structure", "Heading hierarchy skips levels", <<>>)>>
          ELSE <<>>)

checkHeadingIssues(hs) ==
  LET headingProblems == detectHeadingIssues(hs)
      h1Count == Len(SelectSeq(hs, LAMBDA h : h.level = 1))
      emptyHeadings == SelectSeq(hs, LAMBDA h : h.text = <<>> \/ Trim(h.text) = <<>>)
  IN  (IF headingProblems.hasMultipleH1
       THEN <<Issue("critical", "structure", "Multiple H1 tags found", <<h1Count>>)>>
       ELSE <<>>)
      \o (IF headingProblems.hasNoH1
          THEN <<Issue("critical", "structure", "No H1 tag found", <<>>)>> ELSE <<>>)
      \o (IF headingProblems.hasSkippedLevels
          THEN <<Issue("warning", "structure", "Heading hierarchy skips levels", <<>>)>>
          ELSE <<>>)
      \o (IF Len(emptyHeadings) > 0
          THEN <<Issue("warning", "content", "Found empty heading(s)", <<Len(emptyHeadings)>>)>>
          ELSE <<>>)

\* checkImageIssues with the critical threshold at half or more of the images
checkImageIssues_AtLeastHalf(imgs) ==
  LET imagesWithoutAlt ==
        SelectSeq(imgs, LAMBDA img : img.alt.absent \/ img.alt.value = <<>>
                                       \/ Trim(img.alt.value) = <<>>)
      m == Len(imagesWithoutAlt)
      t == Len(imgs)
      imagesWithEmptyAlt == SelectSeq(imgs, LAMBDA img : img.alt = Some(<<>>))
  IN  (IF m > 0
       THEN IF 100 * m >= 50 * t
            THEN <<Issue("critical", "images", "images missing alt text (%)",
                         <<m, t, RoundDiv(100 * m, t)>>)>>
            ELSE <<Issue("warning", "images", "images missing alt text", <<m, t>>)>>
       ELSE <<>>)
      \o (IF Len(imagesWithEmptyAlt) > 0
          THEN <<Issue("recommendation", "images", "image(s) with empty alt attribute",
                       <<Len(imagesWithEmptyAlt)>>)>>
          ELSE <<>>)

checkImageIssues(imgs) ==
  LET imagesWithoutAlt ==
        SelectSeq(imgs, LAMBDA img : img.alt.absent \/ img.alt.value = <<>>
                                       \/ Trim(img.alt.value) = <<>>)
      m == Len(imagesWithoutAlt)
      t == Len(imgs)
      imagesWithEmptyAlt == SelectSeq(imgs, LAMBDA img : img.alt = Some(<<>>))
  IN  (IF m > 0
       THEN IF 100 * m > 50 * t
            THEN <<Issue("critical", "images", "images missing alt text (%)",
                         <<m, t, RoundDiv(100 * m, t)>>)>>
            ELSE <<Issue("warning", "images", "images missing alt text", <<m, t>>)>>
       ELSE <<>>)
      \o (IF Len(imagesWithEmptyAlt) > 0
          THEN <<Issue("recommendation", "images", "image(s) with empty alt attribute",
                       <<Len(imagesWithEmptyAlt)>>)>>
          ELSE <<>>)

checkLinkIssues(ls) ==
  LET genericLinks == findGenericAnchorLinks(ls)
      anchorLinks == SelectSeq(ls, LAMBDA l : l.type = "anchor")
      externalWithoutNofollow == SelectSeq(ls, LAMBDA l : l.type = "external" /\ ~l.nofollow)
  IN  (IF Len(genericLinks) > 0
       THEN <<Issue("recommendation", "links", "link(s) with generic anchor text",
                    <<Len(genericLinks)>>)>>
       ELSE <<>>)
      \o (IF Len(anchorLinks) > 0
          THEN <<Issue("recommendation", "links", "Found anchor link(s)", <<Len(anchorLinks)>>)>>
          ELSE <<>>)
      \o (IF Len(externalWithoutNofollow) > ExternalFollowMax
          THEN <<Issue("recommendation", "links", "external links without nofollow",
                       <<Len(externalWithoutNofollow)>>)>>
          ELSE <<>>)

\* One warning for each invalid record instead of one for all of them
checkSchemaIssues_PerRecord(schemas) ==
  LET invalidSchemas == SelectSeq(schemas, LAMBDA sc : ~sc.isValid)
  IN  [i \in 1..Len(invalidSchemas) |->
         Issue("warning", "schema", "invalid JSON-LD schema(s)", <<1>>)]
      \o (IF Len(schemas) = 0
          THEN <<Issue("recommendation", "schema", "No structured data (JSON-LD) found", <<>>)>>
          ELSE <<>>)

checkSchemaIssues(schemas) ==
  LET invalidSchemas == SelectSeq(schemas, LAMBDA sc : ~sc.isValid)
  IN  (IF Len(invalidSchemas) > 0
       THEN <<Issue("warning", "schema", "invalid JSON-LD schema(s)", <<Len(invalidSchemas)>>)>>
       ELSE <<>>)
      \o (IF Len(schemas) = 0
          THEN <<Issue("recommendation", "schema", "No structured data (JSON-LD) found", <<>>)>>
          ELSE <<>>)

\* An issue list kept at module level and never cleared between calls
detectIssues_Leaky(md, hs, imgs, ls, schemas) ==
  (IF prev.called /\ prev.ok THEN prev.result.issues ELSE <<>>)
    \o checkMetaIssues(md)
    \o checkHeadingIssues(hs)
    \o checkImageIssues(imgs)
    \o checkLinkIssues(ls)
    \o checkSchemaIssues(schemas)

detectIssues(md, hs, imgs, ls, schemas) ==
  checkMetaIssues(md)
    \o checkHeadingIssues(hs)
    \o checkImageIssues(imgs)
    \o checkLinkIssues(ls)
    \o checkSchemaIssues(schemas)

----------------------------------------------------------------------------
(* Aggregator / scorer *)

\* countImagesByAlt counting every image that has an alt attribute value
countImagesByAlt_AnyAlt(imgs) ==
  LET withAlt == Len(SelectSeq(imgs, LAMBDA img : ~img.alt.absent))
  IN  [withAlt |-> withAlt, withoutAlt |-> Len(imgs) - withAlt, total |-> Len(imgs)]

countImagesByAlt(imgs) ==
  LET withAlt == Len(SelectSeq(imgs, LAMBDA img : ~img.alt.absent /\ img.alt.value # <<>> /\ Len(Trim(img.alt.value)) > 0))
  IN  [withAlt |-> withAlt, withoutAlt |-> Len(imgs) - withAlt, total |-> Len(imgs)]

categorizeLinks(ls) ==
  [internal |-> SelectSeq(ls, LAMBDA l : l.type = "internal"),
   external |-> SelectSeq(ls, LAMBDA l : l.type = "external"),
   anchor   |-> SelectSeq(ls, LAMBDA l : l.type = "anchor")]

getTotalUniqueKeywords(kws) ==
  Cardinality({kws[i].phrase : i \in 1..Len(kws)})

calculateStatistics_AllSchemas(text, hs, imgs, ls, schemas, kws) ==
  LET imageStats == countImagesByAlt(imgs)
      linkStats  == categorizeLinks(ls)
  IN  [totalWords       |-> Len(WordsOf(text)),
       totalCharacters  |-> Len(text),
       totalImages      |-> Len(imgs),
       imagesWithAlt    |-> imageStats.withAlt,
       imagesWithoutAlt |-> imageStats.withoutAlt,
       totalLinks       |-> Len(ls),
       internalLinks    |-> Len(linkStats.internal),
       externalLinks    |-> Len(linkStats.external),
       anchorLinks      |-> Len(linkStats.anchor),
       h1Count          |-> Len(SelectSeq(hs, LAMBDA h : h.level = 1)),
       schemaCount      |-> Len(schemas),
       uniqueKeywords   |-> getTotalUniqueKeywords(kws)]

calculateStatistics(text, hs, imgs, ls, schemas, kws) ==
  LET imageStats == countImagesByAlt(imgs)
      linkStats  == categorizeLinks(ls)
  IN  [totalWords       |-> Len(WordsOf(text)),
       totalCharacters  |-> Len(text),
       totalImages      |-> Len(imgs),
       imagesWithAlt    |-> imageStats.withAlt,
       imagesWithoutAlt |-> imageStats.withoutAlt,
       totalLinks       |-> Len(ls),
       internalLinks    |-> Len(linkStats.internal),
       externalLinks    |-> Len(linkStats.external),
       anchorLinks      |-> Len(linkStats.anchor),
       h1Count          |-> Len(SelectSeq(hs, LAMBDA h : h.level = 1)),
       schemaCount      |-> Len(SelectSeq(schemas, LAMBDA s : s.isValid)),
       uniqueKeywords   |-> getTotalUniqueKeywords(kws)]

CriticalPenalty == 15
WarningPenalty == 5
RecommendationPenalty == 2
ReadabilityBonusMin == 60
Bonus == 5

calculateSEOScore_NoClamp(r) ==
  LET s0 == 100
      s1 == s0 - Len(SelectSeq(r.issues, LAMBDA i : i.severity = "critical")) * CriticalPenalty
      s2 == s1 - Len(SelectSeq(r.issues, LAMBDA i : i.severity = "warning")) * WarningPenalty
      s3 == s2 - Len(SelectSeq(r.issues, LAMBDA i : i.severity = "recommendation")) * RecommendationPenalty
      s4 == IF r.readability.fleschScore >= ReadabilityBonusMin * 10 THEN s3 + Bonus ELSE s3
      s5 == IF r.stats.schemaCount > 0 THEN s4 + Bonus ELSE s4
  IN  s5

calculateSEOScore(r) ==
  LET s0 == 100
      s1 == s0 - Len(SelectSeq(r.issues, LAMBDA i : i.severity = "critical")) * CriticalPenalty
      s2 == s1 - Len(SelectSeq(r.issues, LAMBDA i : i.severity = "warning")) * WarningPenalty
      s3 == s2 - Len(SelectSeq(r.issues, LAMBDA i : i.severity = "recommendation")) * RecommendationPenalty
      s4 == IF r.readability.fleschScore >= ReadabilityBonusMin * 10 THEN s3 + Bonus ELSE s3
      s5 == IF r.stats.schemaCount > 0 THEN s4 + Bonus ELSE s4
  IN  Max(0, Min(100, s5))

ExcellentMin == 90
GoodMin == 75
FairMin == 50

\* "Good" only above 75
getSEOScoreRating_StrictGood(s) ==
  IF s >= ExcellentMin
  THEN [rating |-> "Excellent", color |-> "success",
        description |-> "Your page has excellent SEO!"]
  ELSE IF s > GoodMin
  THEN [rating |-> "Good", color |-> "success",
        description |-> "Your page has good SEO with minor improvements possible."]
  ELSE IF s >= FairMin
  THEN [rating |-> "Fair", color |-> "warning",
        description |-> "Your page needs some SEO improvements."]
  ELSE [rating |-> "Poor", color |-> "error",
        description |-> "Your page has significant SEO issues that need attention."]

getSEOScoreRating(s) ==
  IF s >= ExcellentMin
  THEN [rating |-> "Excellent", color |-> "success",
        description |-> "Your page has excellent SEO!"]
  ELSE IF s >= GoodMin
  THEN [rating |-> "Good", color |-> "success",
        description |-> "Your page has good SEO with minor improvements possible."]
  ELSE IF s >= FairMin
  THEN [rating |-> "Fair", color |-> "warning",
        description |-> "Your page needs some SEO improvements."]
  ELSE [rating |-> "Poor", color |-> "error",
        description |-> "Your page has significant SEO issues that need attention."]

----------------------------------------------------------------------------
(* analyzeSEO.  The raw document is [kind, dom]: kind says what parseHTML
   meets ("empty", "blank": nothing to parse; "parsererror": the parsed tree
   holds a <parsererror> element; "throws": DOMParser raises; "ok"), dom is
   the tree DOMParser builds. *)

Html(kind, dom) == [kind |-> kind, dom |-> dom]

parseHTML_NoChecks(h) == h.dom

parseHTML(h) ==
  IF h.kind \in {"empty", "blank"} THEN Null
  ELSE IF h.kind = "throws" THEN Null
  ELSE IF h.kind = "parsererror" THEN Null
  ELSE h.dom

extractAllText(d) == cleanText(d.bodyText)

\* The upstream stages in the order analyzeSEO evaluates them
StageOrder ==
  <<"allText", "metadata", "headings", "images", "links", "schema", "readability",
    "keywords">>

Stages == {StageOrder[i] : i \in 1..Len(StageOrder)}

\* What a stage reads besides the document and the URL
StageInputs(st) == IF st \in {"readability", "keywords"} THEN {"allText"} ELSE {}

\* order = "source": the stages run in the order of the source text.
\* order = "any": they run in any order that respects their inputs (the
\* stages share nothing else, so an implementation may reorder them).
StageReady(st) ==
  /\ st \notin done
  /\ IF order = "source"
     THEN \A i \in 1..Len(StageOrder) :
            StageOrder[i] = st => done = {StageOrder[j] : j \in 1..(i - 1)}
     ELSE StageInputs(st) \subseteq done

\* detectIssues and calculateStatistics follow the last upstream assignment
UpstreamComplete_NoBarrier == "metadata" \in done

UpstreamComplete == done = Stages

----------------------------------------------------------------------------
(* CORS proxy route.  rateLimitMap is a Map keyed by the client key; a key the
   Map does not hold has NoRecord. *)

RATE_LIMIT_WINDOW == 60000
RATE_LIMIT_MAX == 10

NoRecord == [none |-> TRUE]
Record(count, resetTime) == [none |-> FALSE, count |-> count, resetTime |-> resetTime]

ClientKeys == {"1.1.1.1", "unknown"}

\* checkRateLimit with a record admitted until its count exceeds the maximum
checkRateLimit_Inclusive(m, ip, t) ==
  LET record == m[ip]
  IN  IF record.none \/ t > record.resetTime
      THEN [allowed |-> TRUE, map |-> [m EXCEPT ![ip] = Record(1, t + RATE_LIMIT_WINDOW)]]
      ELSE IF record.count > RATE_LIMIT_MAX THEN [allowed |-> FALSE, map |-> m]
      ELSE [allowed |-> TRUE, map |-> [m EXCEPT ![ip].count = @ + 1]]

\* checkRateLimit(ip) with Date.now() = t on the Map m: its result and the Map after
checkRateLimit(m, ip, t) ==
  LET record == m[ip]
  IN  IF record.none \/ t > record.resetTime
      THEN [allowed |-> TRUE, map |-> [m EXCEPT ![ip] = Record(1, t + RATE_LIMIT_WINDOW)]]
      ELSE IF record.count >= RATE_LIMIT_MAX THEN [allowed |-> FALSE, map |-> m]
      ELSE [allowed |-> TRUE, map |-> [m EXCEPT ![ip].count = @ + 1]]

\* x-forwarded-for || x-real-ip || "unknown"
ClientKey(headers) ==
  IF ~headers.xForwardedFor.absent /\ headers.xForwardedFor.value # ""
  THEN headers.xForwardedFor.value
  ELSE IF ~headers.xRealIp.absent /\ headers.xRealIp.value # "" THEN headers.xRealIp.value
  ELSE "unknown"

\* What GET answers once the rate limit has let the request through; target is
\* the url parameter and what fetching it gives
\*   "missing": no url parameter       "ftp": a URL that is not http(s)
\*   "ok": fetched, response.ok         "down": every attempt fails
TargetStatus(target) ==
  CASE target = "missing" -> [status |-> 400, fetched |-> FALSE]
    [] target = "ftp"     -> [status |-> 400, fetched |-> FALSE]
    [] target = "ok"      -> [status |-> 200, fetched |-> TRUE]
    [] target = "down"    -> [status |-> 500, fetched |-> TRUE]

ProxyAtRest ==
  /\ rateLimitMap = [k \in ClientKeys |-> NoRecord]
  /\ clock = 0
  /\ reply = Null

----------------------------------------------------------------------------
(* Fetchers.  A URL string is [padded, prefix, rest]: surrounding whitespace or
   not, what it starts with ("", "//", "http://" or "https://") and what
   follows.  What the network does to a fetch is one of
     "ok"               the promise resolves, response.ok
     "not-ok"           the promise resolves, response.ok false
     "failed-to-fetch"  it rejects with TypeError('Failed to fetch')
     "abort"            it rejects with an AbortError (the timeout fired)
     "non-error"        it rejects with a value that is no Error
   and the body of a response is "html", "empty" or "too-large". *)

Url(prefix, rest) == [padded |-> FALSE, prefix |-> prefix, rest |-> rest]

normalizeUrl(u) ==
  IF u.prefix \in {"", "//"} THEN Url("https://", u.rest) ELSE Url(u.prefix, u.rest)

FetchResult(strategy, u) == [ok |-> TRUE, html |-> "html", strategy |-> strategy, url |-> u]
FetchError(type, message) == [ok |-> FALSE, type |-> type, message |-> message]

\* The catch block of directFetch
directFetchCatch(error) ==
  CASE error = "abort" -> FetchError("TIMEOUT", "Request timed out")
    [] error = "failed-to-fetch" -> FetchError("CORS_ERROR", "CORS policy blocked this request")
    [] error = "non-error" -> FetchError("UNKNOWN", "An unexpected error occurred")
    [] OTHER -> FetchError("NETWORK_ERROR", error)

\* directFetch(url) when the network answers the first fetch with net.first, the
\* http:// retry with net.second and the body is net.body
directFetch(u, net) ==
  LET retry == net.first = "not-ok" /\ u.prefix = "https://"
      fetchUrl == IF retry THEN Url("http://", u.rest) ELSE u
      response == IF retry THEN net.second ELSE net.first
  IN  IF net.first \in {"failed-to-fetch", "abort", "non-error"} THEN directFetchCatch(net.first)
      ELSE IF response \in {"failed-to-fetch", "abort", "non-error"} THEN directFetchCatch(response)
      ELSE IF response = "not-ok" THEN directFetchCatch("HTTP error")
      ELSE IF net.body = "empty" THEN directFetchCatch("Empty response received")
      ELSE IF net.body = "too-large" THEN directFetchCatch("HTML size exceeds limit")
      ELSE FetchResult("direct", fetchUrl)

\* proxyFetch(url) when /api/proxy answers with net.first and the body is net.body
proxyFetch(u, net) ==
  IF net.first = "abort" THEN FetchError("TIMEOUT", "Request timed out")
  ELSE IF net.first = "non-error" THEN FetchError("UNKNOWN", "An unexpected error occurred")
  ELSE IF net.first = "failed-to-fetch" THEN FetchError("NETWORK_ERROR", "Failed to fetch")
  ELSE IF net.first = "not-ok" THEN FetchError("NETWORK_ERROR", "HTTP error")
  ELSE IF net.body = "empty" THEN FetchError("NETWORK_ERROR", "Empty response received")
  ELSE FetchResult("proxy", u)

\* fetchHTMLWithFallback falling back to the proxy after every failure
isCorsError_AnyError(error) == ~error.ok

\* error && typeof error === 'object' && 'type' in error && error.type === 'CORS_ERROR'
isCorsError(error) == ~error.ok /\ error.type = "CORS_ERROR"

FetchAtRest ==
  /\ fetchPc = "idle"
  /\ fetchArg = Null
  /\ fetchLog = <<>>
  /\ directResult = Null
  /\ fetchOutcome = Null

----------------------------------------------------------------------------
(* Analyzer page.  A sitemap list is the sequence of the loc values of its
   entries; fetchSitemap(baseUrl) asks the origin of baseUrl. *)

\* The sitemap a site serves
SiteMaps(host) ==
  CASE host = "example.com" -> <<"https://example.com/", "https://example.com/a">>
    [] host = "other.org"   -> <<"https://other.org/", "https://other.org/page">>
    [] OTHER -> <<>>

\* fetchSitemap(baseUrl) when a sitemap is found, and when none is
fetchSitemap(baseUrl, found) ==
  IF found /\ Len(SiteMaps(getHostname(baseUrl))) > 0
  THEN [urls |-> SiteMaps(getHostname(baseUrl)), found |-> TRUE]
  ELSE [urls |-> <<>>, found |-> FALSE]

\* The page as mounted with nothing saved: the useState initial values
PageAtRest ==
  /\ pageUrl = ""
  /\ isLoading = FALSE
  /\ pageError = Null
  /\ pageResult = Null
  /\ sitemap = <<>>
  /\ showSitemap = FALSE
  /\ running = Null
  /\ sitemapFetches = {}

WebAtRest == ProxyAtRest /\ FetchAtRest /\ PageAtRest

NoPrev == [called |-> FALSE]

FreshFrame ==
  /\ doc = Null /\ allText = <<>> /\ metadata = Null /\ headings = <<>>
  /\ images = <<>> /\ links = <<>> /\ schema = <<>> /\ readability = Null
  /\ keywords = <<>> /\ issues = <<>> /\ stats = Null /\ result = Null
  /\ thrown = <<>> /\ done = {} /\ last = ""

InitCall(htmls, urls, orders) ==
  /\ pc = "call"
  /\ html \in htmls /\ url \in urls /\ order \in orders
  /\ FreshFrame
  /\ score = 0 /\ rating = Null /\ now = 0 /\ prev = NoPrev
  /\ WebAtRest

ParseOk ==
  /\ pc = "call"
  /\ parseHTML(html) # Null
  /\ doc' = parseHTML(html)
  /\ pc' = "extract"
  /\ UNCHANGED <<html, url, allText, metadata, headings, images, links, schema,
                 readability, keywords, issues, stats, result, thrown, score, done,
                 order, now, prev,
                 last,
                 rating, webVars>>

\* if (!doc) throw new Error('Failed to parse HTML')
ParseFail ==
  /\ pc = "call"
  /\ parseHTML(html) = Null
  /\ doc' = Null
  /\ thrown' = Append(thrown, "Failed to parse HTML")
  /\ pc' = "failed"
  /\ UNCHANGED <<html, url, allText, metadata, headings, images, links, schema,
                 readability, keywords, issues, stats, result, score, done, order, now,
                 prev,
                 last,
                 rating, webVars>>

ExtractAllText ==
  /\ pc = "extract"
  /\ StageReady("allText")
  /\ allText' = extractAllText(doc)
  /\ done' = done \cup {"allText"}
  /\ last' = "allText"
  /\ UNCHANGED <<pc, html, url, doc, metadata, headings, images, links, schema,
                 readability, keywords, issues, stats, result, thrown, score, order,
                 now, prev,
                 rating, webVars>>

ExtractMetadata ==
  /\ pc = "extract"
  /\ StageReady("metadata")
  /\ metadata' = extractMetadata(doc)
  /\ done' = done \cup {"metadata"}
  /\ last' = "metadata"
  /\ UNCHANGED <<pc, html, url, doc, allText, headings, images, links, schema,
                 readability, keywords, issues, stats, result, thrown, score, order,
                 now, prev,
                 rating, webVars>>

AnalyzeHeadings ==
  /\ pc = "extract"
  /\ StageReady("headings")
  /\ headings' = analyzeHeadings(doc)
  /\ done' = done \cup {"headings"}
  /\ last' = "headings"
  /\ UNCHANGED <<pc, html, url, doc, allText, metadata, images, links, schema,
                 readability, keywords, issues, stats, result, thrown, score, order,
                 now, prev,
                 rating, webVars>>

AnalyzeImages ==
  /\ pc = "extract"
  /\ StageReady("images")
  /\ images' = analyzeImages(doc)
  /\ done' = done \cup {"images"}
  /\ last' = "images"
  /\ UNCHANGED <<pc, html, url, doc, allText, metadata, headings, links, schema,
                 readability, keywords, issues, stats, result, thrown, score, order,
                 now, prev,
                 rating, webVars>>

AnalyzeLinks ==
  /\ pc = "extract"
  /\ StageReady("links")
  /\ links' = analyzeLinks(doc, url)
  /\ done' = done \cup {"links"}
  /\ last' = "links"
  /\ UNCHANGED <<pc, html, url, doc, allText, metadata, headings, images, schema,
                 readability, keywords, issues, stats, result, thrown, score, order,
                 now, prev,
                 rating, webVars>>

ParseSchema ==
  /\ pc = "extract"
  /\ StageReady("schema")
  /\ schema' = parseSchema(doc)
  /\ done' = done \cup {"schema"}
  /\ last' = "schema"
  /\ UNCHANGED <<pc, html, url, doc, allText, metadata, headings, images, links,
                 readability, keywords, issues, stats, result, thrown, score, order,
                 now, prev,
                 rating, webVars>>

CalculateReadability ==
  /\ pc = "extract"
  /\ StageReady("readability")
  /\ readability' = calculateReadability(allText)
  /\ done' = done \cup {"readability"}
  /\ last' = "readability"
  /\ UNCHANGED <<pc, html, url, doc, allText, metadata, headings, images, links,
                 schema, keywords, issues, stats, result, thrown, score, order, now,
                 prev,
                 rating, webVars>>

AnalyzeKeywords ==
  /\ pc = "extract"
  /\ StageReady("keywords")
  /\ keywords' = analyzeKeywords(allText)
  /\ done' = done \cup {"keywords"}
  /\ last' = "keywords"
  /\ UNCHANGED <<pc, html, url, doc, allText, metadata, headings, images, links,
                 schema, readability, issues, stats, result, thrown, score, order, now,
                 prev,
                 rating, webVars>>

DetectIssues ==
  /\ pc = "extract"
  /\ UpstreamComplete
  /\ issues' = detectIssues(metadata, headings, images, links, schema)
  /\ pc' = "detected"
  /\ UNCHANGED <<html, url, doc, allText, metadata, headings, images, links, schema,
                 readability, keywords, stats, result, thrown, score, done, order, now,
                 prev,
                 last,
                 rating, webVars>>

CalculateStatistics ==
  /\ pc = "detected"
  /\ stats' = calculateStatistics(allText, headings, images, links, schema, keywords)
  /\ pc' = "stats"
  /\ UNCHANGED <<html, url, doc, allText, metadata, headings, images, links, schema,
                 readability, keywords, issues, result, thrown, score, done, order,
                 now, prev,
                 last,
                 rating, webVars>>

\* The result literal; fetchedAt is a fresh reading of the clock
BuildResult ==
  /\ pc = "stats"
  /\ \E t \in now..MaxClock : now' = t
  /\ result' = [url |-> url, fetchedAt |-> now', metadata |-> metadata,
                headings |-> headings, images |-> images, links |-> links,
                schema |-> schema, readability |-> readability,
                keywords |-> keywords, issues |-> issues, stats |-> stats]
  /\ pc' = "done"
  /\ UNCHANGED <<html, url, doc, allText, metadata, headings, images, links, schema,
                 readability, keywords, issues, stats, thrown, score, done, order,
                 prev,
                 last,
                 rating, webVars>>

NextCall ==
  \/ ParseOk \/ ParseFail
  \/ ExtractAllText \/ ExtractMetadata \/ AnalyzeHeadings \/ AnalyzeImages
  \/ AnalyzeLinks \/ ParseSchema \/ CalculateReadability \/ AnalyzeKeywords
  \/ DetectIssues \/ CalculateStatistics \/ BuildResult

\* analyzeSEO as one function: the stages composed in the order of the source
\* text, t the clock reading of the result literal
analyzeSEO(h, baseUrl, t) ==
  LET d == parseHTML(h)
      text == extractAllText(d)
      md == extractMetadata(d)
      hs == analyzeHeadings(d)
      imgs == analyzeImages(d)
      ls == analyzeLinks(d, baseUrl)
      sc == parseSchema(d)
      rd == calculateReadability(text)
      kw == analyzeKeywords(text)
      is == detectIssues(md, hs, imgs, ls, sc)
      st == calculateStatistics(text, hs, imgs, ls, sc, kw)
  IN  [url |-> baseUrl, fetchedAt |-> t, metadata |-> md, headings |-> hs,
       images |-> imgs, links |-> ls, schema |-> sc, readability |-> rd,
       keywords |-> kw, issues |-> is, stats |-> st]

\* A result without its timestamp
SansFetchedAt(r) ==
  [url |-> r.url, metadata |-> r.metadata, headings |-> r.headings, images |-> r.images,
   links |-> r.links, schema |-> r.schema, readability |-> r.readability,
   keywords |-> r.keywords, issues |-> r.issues, stats |-> r.stats]

\* A document the parser accepts: non-blank, parses without error
Usable(h) == h.kind = "ok"

----------------------------------------------------------------------------
(* Repeated calls of analyzeSEO on a few documents, the upstream stages in
   source order or in any order *)

H(level, vis, text) == [level |-> level, vis |-> vis, text |-> text]

Img(vis, src, alt) ==
  [vis |-> vis, src |-> src, alt |-> alt, title |-> Absent, width |-> Absent,
   height |-> Absent, loading |-> Absent]

A(vis, href, text, rel) ==
  [vis |-> vis, href |-> href, text |-> text, rel |-> rel, target |-> Absent]

Rel(rel, href) == [rel |-> rel, href |-> href]

RichDom ==
  [title |-> 12, lang |-> Some("en"),
   metas |-> <<Meta("description", "", 130), Meta("viewport", "", 20),
               Meta("", "og:title", 12), Meta("author", "", 5)>>,
   rels |-> <<Rel("canonical", Some("https://example.com/a")), Rel("icon", Some("/about"))>>,
   headingEls |-> <<H(1, Shown, <<"a">>), H(3, [Shown EXCEPT !.hidden = TRUE], <<"b">>),
                    H(3, Shown, <<"a", " ", "b">>), H(2, Shown, <<" ">>)>>,
   imgEls |-> <<Img(Shown, Some("a.png"), Some(<<"a">>)), Img(Shown, Some("b.png"), Some(<<>>)),
                [Img(Shown, Some("c.png"), Absent) EXCEPT !.width = Some("640"),
                                                          !.loading = Some("lazy")]>>,
   linkEls |-> <<A(Shown, Some("#top"), <<"h", "e", "r", "e">>, Absent),
                 A(Shown, Some("/about"), <<"a">>, Absent),
                 A(Shown, Some("https://other.org/"), <<"b">>, Some("nofollow")),
                 A(Shown, Some("mailto:a@example.com"), <<"b">>, Absent)>>,
   scripts |-> <<"{bad", "{\"@type\":\"Article\"}">>,
   bodyText |-> <<"b", "a", "b", " ", " ", "a", "b", "e", ".", " ", "b", "a", "b", "!">>]

PlainDom ==
  [EmptyDom EXCEPT !.title = 45,
                   !.headingEls = <<H(1, Shown, <<"a">>), H(1, Shown, <<"b">>)>>,
                   !.bodyText = <<"a", "a", "a", "a", "a">>]

CallHtmls ==
  { Html("empty", EmptyDom), Html("blank", EmptyDom), Html("parsererror", PlainDom),
    Html("throws", PlainDom), Html("ok", EmptyDom), Html("ok", PlainDom), Html("ok", RichDom) }

CallUrls == {"https://example.com/", "https://other.org/page"}

Init == InitCall(CallHtmls, CallUrls, {"source", "any"})

\* The caller calls analyzeSEO again; the locals of the new call are fresh
CallAgain ==
  /\ pc \in {"done", "failed"}
  /\ prev' = [called |-> TRUE, html |-> html, url |-> url, ok |-> pc = "done",
              result |-> result, thrown |-> thrown]
  /\ html' \in CallHtmls /\ url' \in CallUrls /\ order' \in {"source", "any"}
  /\ doc' = Null /\ allText' = <<>> /\ metadata' = Null /\ headings' = <<>>
  /\ images' = <<>> /\ links' = <<>> /\ schema' = <<>> /\ readability' = Null
  /\ keywords' = <<>> /\ issues' = <<>> /\ stats' = Null /\ result' = Null
  /\ thrown' = <<>> /\ done' = {} /\ last' = ""
  /\ pc' = "call"
  /\ UNCHANGED <<score, now,
                 rating, webVars>>

Next == NextCall \/ CallAgain

Spec == Init /\ [][Next]_vars

\* C3: two calls of analyzeSEO on the same HTML and the same URL return results
\* that are equal in every field except fetchedAt (the stages keep no state
\* between calls).
C3_IdempotentExceptFetchedAt ==
  (pc = "done" /\ prev.called /\ prev.ok /\ prev.html = html /\ prev.url = url)
    => SansFetchedAt(result) = SansFetchedAt(prev.result)

C3_Witness ==
  /\ pc = "done" /\ prev.called /\ prev.ok
  /\ html = Html("ok", RichDom) /\ prev.html = html /\ prev.url = url
  /\ result.fetchedAt # prev.result.fetchedAt
  /\ Len(result.issues) > 0

\* C4: on a document the parser cannot use, analyzeSEO raises exactly one error,
\* "Failed to parse HTML", before any stage has run, and no partial result, issue
\* list or statistics exist.
C4_UnusableDocumentFails ==
  ~Usable(html) =>
    /\ pc \in {"call", "failed"}
    /\ done = {} /\ allText = <<>> /\ metadata = Null /\ readability = Null
    /\ issues = <<>> /\ stats = Null /\ result = Null
    /\ (pc = "call" => thrown = <<>>)
    /\ (pc = "failed" => thrown = <<"Failed to parse HTML">>)

C4_Witness ==
  /\ pc = "failed" /\ html = Html("parsererror", PlainDom)
  /\ thrown = <<"Failed to parse HTML">> /\ done = {} /\ result = Null

\* C6: issue detection and statistics start only when all eight upstream stages
\* have produced their output, and the result is the one the source order
\* gives, whatever order the upstream stages ran in.
C6_BarrierAndOrderIndependence ==
  /\ (pc \in {"detected", "stats", "done"} => done = Stages)
  /\ (pc = "done" => result = analyzeSEO(html, url, result.fetchedAt))

C6_Witness ==
  /\ pc = "done" /\ order = "any" /\ last = "metadata"
  /\ html = Html("ok", RichDom)
  /\ result = analyzeSEO(html, url, result.fetchedAt)

----------------------------------------------------------------------------
(* analyzeSEO on documents that differ in their heading elements only *)

HeadingTexts == {<<"a">>, <<" ", "b", " ">>, <<"a", " ", "b">>, <<" ">>}

HeadingElements ==
  {H(1, v, <<"a">>) : v \in Visibilities}
    \cup {H(2, Shown, t) : t \in HeadingTexts}
    \cup {H(3, Shown, <<"a">>), H(6, Shown, <<"a">>)}

HeadingHtmls ==
  {Html("ok", [EmptyDom EXCEPT !.headingEls = els]) :
     els \in SeqsUpTo(HeadingElements, MaxHeadingEls)}
    \cup {Html("blank", EmptyDom)}

InitHeadings == InitCall(HeadingHtmls, {"https://example.com/"}, {"source"})

SpecHeadings == InitHeadings /\ [][NextCall]_vars

\* Visibility as C8 words it, read off the element
InView(el) ==
  /\ ~el.vis.hidden
  /\ el.vis.ariaHidden # Some("true")
  /\ el.vis.display # "none"
  /\ el.vis.visibility # "hidden"

HeadingsRan == pc \in {"extract", "detected", "stats", "done"} /\ "headings" \in done

\* C8 (as amended): the heading list is, in document order, the h1..h6 elements
\* that are visible AND whose trimmed text is non-empty; each entry's level is
\* the tag's digit and lies in 1..6, its text is the trimmed text of the element
\* and is non-empty.
C8_HeadingsVisibleNonEmptyInOrder ==
  HeadingsRan =>
    LET kept == SelectSeq(doc.headingEls, LAMBDA el : InView(el) /\ Trim(el.text) # <<>>)
    IN  /\ Len(headings) = Len(kept)
        /\ \A i \in 1..Len(kept) :
             /\ headings[i].level = kept[i].level
             /\ headings[i].level \in 1..6
             /\ headings[i].text = Trim(kept[i].text)
             /\ headings[i].text # <<>>

C8_Witness ==
  /\ HeadingsRan
  /\ doc.headingEls = <<H(1, [Shown EXCEPT !.display = "none"], <<"a">>),
                        H(2, Shown, <<" ", "b", " ">>), H(1, Shown, <<"a">>)>>
  /\ Len(headings) = 2
  /\ headings[1].level = 2 /\ headings[1].text = <<"b">>
  /\ headings[2].level = 1

\* C8 as stated: the heading list is the subsequence of ALL visible h1..h6
\* elements (a visible heading with blank text would have an entry).
C8_AsStated ==
  HeadingsRan =>
    LET visible == SelectSeq(doc.headingEls, InView)
    IN  /\ Len(headings) = Len(visible)
        /\ \A i \in 1..Min(Len(headings), Len(visible)) :
             headings[i].level = visible[i].level

IssuesRan == pc \in {"detected", "stats", "done"}

WithText(is, text) == SelectSeq(is, LAMBDA i : i.message.text = text)

\* C10: with n level-1 headings in the heading list: n > 1 gives exactly one
\* critical structure issue "Multiple H1 tags found" embedding n and no "No H1"
\* issue; n = 0 gives exactly one critical "No H1 tag found" and no multiple-H1
\* issue; n = 1 gives neither.  The two are never emitted together.
C10_H1Issues ==
  IssuesRan =>
    LET n == Len(SelectSeq(headings, LAMBDA h : h.level = 1))
        multiple == WithText(issues, "Multiple H1 tags found")
        none == WithText(issues, "No H1 tag found")
    IN  /\ n > 1 => /\ Len(multiple) = 1 /\ Len(none) = 0
                    /\ multiple[1].severity = "critical"
                    /\ multiple[1].category = "structure"
                    /\ multiple[1].message.args = <<n>>
        /\ n = 0 => /\ Len(none) = 1 /\ Len(multiple) = 0
                    /\ none[1].severity = "critical"
                    /\ none[1].category = "structure"
        /\ n = 1 => Len(multiple) = 0 /\ Len(none) = 0
        /\ ~(Len(multiple) > 0 /\ Len(none) > 0)

C10_Witness ==
  /\ pc = "done"
  /\ Len(SelectSeq(headings, LAMBDA h : h.level = 1)) = 2
  /\ Len(headings) = 3
  /\ WithText(issues, "Multiple H1 tags found")
       = <<Issue("critical", "structure", "Multiple H1 tags found", <<2>>)>>
  /\ WithText(issues, "No H1 tag found") = <<>>

----------------------------------------------------------------------------
(* analyzeSEO on documents that differ in the title and the description *)

DescriptionMetas ==
  {<<>>} \cup {<<Meta("description", "", n)>> : n \in 0..MaxDescriptionLen}

MetaHtmls ==
  {Html("ok", [EmptyDom EXCEPT !.title = t, !.metas = ms]) :
     t \in 0..MaxTitleLen, ms \in DescriptionMetas}
    \cup {Html("blank", EmptyDom)}

InitMeta == InitCall(MetaHtmls, {"https://example.com/"}, {"source"})

SpecMeta == InitMeta /\ [][NextCall]_vars

TitleIssues ==
  SelectSeq(issues, LAMBDA i : i.message.text \in
    {"Missing page title", "Title is too short", "Title is too long"})

DescriptionIssues ==
  SelectSeq(issues, LAMBDA i : i.message.text \in
    {"Missing meta description", "Meta description is too short",
     "Meta description is too long"})

\* C9: for the title and for the description at most one issue each.  Missing
\* title: exactly the critical "Missing page title".  Present title: a warning
\* iff its length is < 30 or > 60.  Missing description: exactly one warning
\* about the missing description.  Present description: a warning iff its length
\* is < 120, a recommendation iff > 160, nothing for 120..160.
C9_TitleAndDescriptionIssues ==
  IssuesRan =>
    LET t == metadata.title
        d == metadata.description
        ti == TitleIssues
        di == DescriptionIssues
    IN  /\ Len(ti) <= 1 /\ Len(di) <= 1
        /\ t.absent => ti = <<Issue("critical", "meta", "Missing page title", <<>>)>>
        /\ ~t.absent =>
             /\ (t.value < 30 \/ t.value > 60) <=> Len(ti) = 1
             /\ Len(ti) = 1 => /\ ti[1].severity = "warning"
                               /\ ti[1].message.text # "Missing page title"
        /\ d.absent => /\ Len(di) = 1 /\ di[1].severity = "warning"
                       /\ di[1].message.text = "Missing meta description"
        /\ ~d.absent =>
             /\ d.value < 120 <=> (Len(di) = 1 /\ di[1].severity = "warning")
             /\ d.value > 160 <=> (Len(di) = 1 /\ di[1].severity = "recommendation")
             /\ (120 <= d.value /\ d.value <= 160) <=> Len(di) = 0

C9_Witness ==
  /\ pc = "done"
  /\ metadata.title = Some(60) /\ metadata.description = Some(161)
  /\ TitleIssues = <<>>
  /\ DescriptionIssues
       = <<Issue("recommendation", "meta", "Meta description is too long", <<161>>)>>

----------------------------------------------------------------------------
(* analyzeSEO on documents that differ in their JSON-LD scripts only *)

SchemaHtmls ==
  {Html("ok", [EmptyDom EXCEPT !.title = 45, !.scripts = scripts]) :
     scripts \in SeqsUpTo(ScriptTexts, MaxScripts)}
    \cup {Html("blank", EmptyDom)}

InitSchema == InitCall(SchemaHtmls, {"https://example.com/"}, {"source", "any"})

SpecSchema == InitSchema /\ [][NextCall]_vars

NonBlankScripts(d) == SelectSeq(d.scripts, LAMBDA raw : raw \notin BlankTexts)

\* C5: parseSchema returns one record per script with a non-blank body, in
\* document order; the record of a script is the one parseSchema gives for that
\* script alone; a body that fails to parse gives isValid = false, type
\* "Unknown", parsed = null, rawJson = the script text and an error message;
\* isValid = false implies parsed = null; and a usable document never makes
\* analyzeSEO fail: every other stage and rule still runs.
C5_SchemaRecords ==
  /\ Usable(html) => pc # "failed" /\ thrown = <<>>
  /\ IssuesRan => done = Stages /\ WithText(issues, "No H1 tag found") # <<>>
  /\ (pc = "extract" /\ done = Stages) => ENABLED DetectIssues
  /\ (pc \in {"extract", "detected", "stats", "done"} /\ "schema" \in done) =>
       LET nb == NonBlankScripts(doc)
       IN  /\ Len(schema) = Len(nb)
           /\ \A i \in 1..Len(nb) :
                /\ schema[i].rawJson = nb[i]
                /\ <<schema[i]>> = parseSchema([EmptyDom EXCEPT !.scripts = <<nb[i]>>])
                /\ ~JSONParse(nb[i]).ok =>
                     /\ ~schema[i].isValid
                     /\ schema[i].type = <<"Unknown">>
                     /\ schema[i].parsed = JNull
                     /\ ~schema[i].error.absent
                /\ ~schema[i].isValid => schema[i].parsed = JNull

C5_Witness ==
  /\ pc = "done"
  /\ doc.scripts = <<"{bad", "{\"@type\":\"Article\"}">>
  /\ Len(result.schema) = 2
  /\ ~result.schema[1].isValid /\ result.schema[1].rawJson = "{bad"
  /\ result.schema[2].isValid /\ result.schema[2].type = <<"Article">>
  /\ WithText(result.issues, "invalid JSON-LD schema(s)") # <<>>
  /\ WithText(result.issues, "No H1 tag found") # <<>>

SchemaIssues == SelectSeq(issues, LAMBDA i : i.category = "schema")

\* C11: with k records having isValid = false: k >= 1 gives exactly one schema
\* warning, whose message states k; an empty schema list gives exactly one
\* schema recommendation (no structured data); a non-empty list of valid records
\* gives no schema issue; the warning and the recommendation never come
\* together.
C11_SchemaIssues ==
  IssuesRan =>
    LET k == Len(SelectSeq(schema, LAMBDA sc : ~sc.isValid))
        warnings == SelectSeq(SchemaIssues, LAMBDA i : i.severity = "warning")
        recommendations == SelectSeq(SchemaIssues, LAMBDA i : i.severity = "recommendation")
    IN  /\ Len(warnings) + Len(recommendations) = Len(SchemaIssues)
        /\ k >= 1 =>
             warnings = <<Issue("warning", "schema", "invalid JSON-LD schema(s)", <<k>>)>>
        /\ k = 0 => warnings = <<>>
        /\ Len(schema) = 0 =>
             recommendations
               = <<Issue("recommendation", "schema", "No structured data (JSON-LD) found", <<>>)>>
        /\ Len(schema) > 0 => recommendations = <<>>
        /\ ~(warnings # <<>> /\ recommendations # <<>>)

C11_Witness ==
  /\ pc = "done"
  /\ doc.scripts = <<"{bad">>
  /\ Len(result.schema) = 1
  /\ ~result.schema[1].isValid /\ result.schema[1].type = <<"Unknown">>
  /\ SelectSeq(result.issues, LAMBDA i : i.category = "schema")
       = <<Issue("warning", "schema", "invalid JSON-LD schema(s)", <<1>>)>>

----------------------------------------------------------------------------
(* calculateSEOScore on results whose issue list, readability and schema
   records are chosen freely: a caller builds the result, then scores it *)

RECURSIVE Repeat(_, _)
Repeat(x, n) == IF n = 0 THEN <<>> ELSE <<x>> \o Repeat(x, n - 1)

HandBuiltIssues(c, w, r) ==
  Repeat(Issue("critical", "meta", "hand-built", <<>>), c)
    \o Repeat(Issue("warning", "content", "hand-built", <<>>), w)
    \o Repeat(Issue("recommendation", "links", "hand-built", <<>>), r)

\* fleschScore in tenths: 0, 59.9, 60.0, 100.0
FleschSamples == {0, 599, 600, 1000}

SchemaScriptSamples ==
  { <<>>, <<"{bad">>, <<"{\"@type\":\"Article\"}">>, <<"{bad", "{\"@type\":\"Article\"}">> }

\* The variables a unit specification leaves at rest
SeoAtRest ==
  /\ html = Null /\ url = "https://example.com/" /\ doc = Null
  /\ metadata = Null /\ headings = <<>> /\ images = <<>> /\ links = <<>>
  /\ keywords = <<>> /\ stats = Null /\ result = Null /\ thrown = <<>>
  /\ score = 0 /\ rating = Null /\ done = {} /\ last = "" /\ order = "source"
  /\ now = 0
  /\ prev = NoPrev

AtRest == SeoAtRest /\ WebAtRest

InitScore ==
  /\ pc = "score:inputs"
  /\ \E c, w, r \in 0..MaxIssuesPerSeverity : issues = HandBuiltIssues(c, w, r)
  /\ \E f \in FleschSamples : readability = [fleschScore |-> f]
  /\ \E scripts \in SchemaScriptSamples :
       schema = parseSchema([EmptyDom EXCEPT !.scripts = scripts])
  /\ allText = <<>>
  /\ AtRest

ScoreBuildResult ==
  /\ pc = "score:inputs"
  /\ stats' = calculateStatistics(allText, headings, images, links, schema, keywords)
  /\ result' = [url |-> url, fetchedAt |-> now, metadata |-> metadata,
                headings |-> headings, images |-> images, links |-> links,
                schema |-> schema, readability |-> readability,
                keywords |-> keywords, issues |-> issues, stats |-> stats']
  /\ pc' = "score:built"
  /\ UNCHANGED <<html, url, doc, allText, metadata, headings, images, links, schema,
                 readability, keywords, issues, thrown, score, done, last, order, now,
                 prev,
                 rating, webVars>>

ScoreCalculate ==
  /\ pc = "score:built"
  /\ score' = calculateSEOScore(result)
  /\ pc' = "score:done"
  /\ UNCHANGED <<html, url, doc, allText, metadata, headings, images, links, schema,
                 readability, keywords, issues, stats, result, thrown, done, last,
                 order, now, prev,
                 rating, webVars>>

NextScore == ScoreBuildResult \/ ScoreCalculate

SpecScore == InitScore /\ [][NextScore]_vars

NumWithSeverity(is, sev) == Cardinality({i \in 1..Len(is) : is[i].severity = sev})

\* C1: whatever the numbers of critical, warning and recommendation issues and
\* whether or not either bonus applies, calculateSEOScore returns s with
\* 0 <= s <= 100.
C1_ScoreWithinBounds ==
  pc = "score:done" => (0 <= score /\ score <= 100)

C1_Witness ==
  /\ pc = "score:done"
  /\ NumWithSeverity(result.issues, "critical") = 7
  /\ score = 0

\* C2: calculateSEOScore = clamp(100 - 15c - 5w - 2r + b1 + b2, 0, 100), c, w, r
\* the numbers of critical, warning and recommendation issues, b1 = 5 iff
\* fleschScore >= 60, b2 = 5 iff some schema record has isValid = true.
C2_ScoreFormula ==
  pc = "score:done" =>
    LET c == NumWithSeverity(result.issues, "critical")
        w == NumWithSeverity(result.issues, "warning")
        r == NumWithSeverity(result.issues, "recommendation")
        b1 == IF result.readability.fleschScore >= 600 THEN 5 ELSE 0
        b2 == IF \E i \in 1..Len(result.schema) : result.schema[i].isValid THEN 5 ELSE 0
        raw == 100 - 15 * c - 5 * w - 2 * r + b1 + b2
    IN  score = (IF raw < 0 THEN 0 ELSE IF raw > 100 THEN 100 ELSE raw)

C2_Witness ==
  /\ pc = "score:done"
  /\ Len(result.schema) = 1 /\ ~result.schema[1].isValid
  /\ result.readability.fleschScore = 600
  /\ NumWithSeverity(result.issues, "critical") = 0
  /\ NumWithSeverity(result.issues, "warning") = 1
  /\ NumWithSeverity(result.issues, "recommendation") = 0
  /\ score = 100

----------------------------------------------------------------------------
(* calculateReadability on every short text over a small alphabet *)

TextAlphabet == {"a", "b", "e", "s", ".", " "}

InitText ==
  /\ pc = "text:inputs"
  /\ allText \in SeqsUpTo(TextAlphabet, MaxTextLen)
  /\ readability = Null /\ issues = <<>> /\ schema = <<>>
  /\ AtRest

TextReadability ==
  /\ pc = "text:inputs"
  /\ readability' = calculateReadability(allText)
  /\ pc' = "text:done"
  /\ UNCHANGED <<html, url, doc, allText, metadata, headings, images, links, schema,
                 keywords, issues, stats, result, thrown, score, done, last, order,
                 now, prev,
                 rating, webVars>>

NextText == TextReadability

SpecText == InitText /\ [][NextText]_vars

\* C7: for every non-empty text, 0 <= fleschScore <= 100 (in tenths: 0..1000),
\* also when the raw formula value lies below 0 or above 100.
C7_FleschWithinBounds ==
  (pc = "text:done" /\ ~IsBlank(allText)) =>
    (0 <= readability.fleschScore /\ readability.fleschScore <= 1000)

C7_Witness ==
  /\ pc = "text:done"
  /\ allText = <<"a", "a", "a", "a", "a">>
  /\ FleschNum(countWords(allText), countSentences(allText), countTotalSyllables(allText)) < 0
  /\ readability.fleschScore = 0

----------------------------------------------------------------------------
(* analyzeSEO on documents that differ in their links only *)

Hrefs ==
  { "", "#top", "/about", "about.html", "https://example.com/a", "http://example.com/b",
    "https://other.org/", "//cdn.other.org/x", "ftp://example.com/f",
    "mailto:a@example.com", "javascript:void(0)", "tel:123" }

LinkElements ==
  {A(Shown, Some(h), <<"a">>, Absent) : h \in Hrefs}
    \cup { A([Shown EXCEPT !.hidden = TRUE], Some("/about"), <<"a">>, Absent),
           A(Shown, Absent, <<"a">>, Absent),
           A(Shown, Some("/about"), <<" ">>, Absent),
           A(Shown, Some("https://other.org/"), <<"h", "e", "r", "e">>, Some("nofollow")),
           A(Shown, Some("https://example.com/a"), <<"b">>, Some("noopener")) }

LinkHtmls ==
  {Html("ok", [EmptyDom EXCEPT !.linkEls = els]) : els \in SeqsUpTo(LinkElements, MaxLinkEls)}
    \cup {Html("blank", EmptyDom)}

InitLinks == InitCall(LinkHtmls, CallUrls, {"source"})

SpecLinks == InitLinks /\ [][NextCall]_vars

LinksRan == pc \in {"extract", "detected", "stats", "done"} /\ "links" \in done

\* The hrefs that carry a scheme (absolute URLs), and the network-path ones
WithScheme ==
  { "https://example.com/a", "http://example.com/b", "https://other.org/",
    "ftp://example.com/f", "mailto:a@example.com", "javascript:void(0)", "tel:123" }

NetworkPath == {"//cdn.other.org/x"}

\* The elements analyzeLinks collects: visible, href and text non-empty, not a
\* javascript: / mailto: / tel: href
Collected(el) ==
  /\ ~el.vis.hidden /\ el.vis.ariaHidden # Some("true")
  /\ el.vis.display # "none" /\ el.vis.visibility # "hidden"
  /\ ~el.href.absent /\ el.href.value # ""
  /\ el.href.value \notin {"mailto:a@example.com", "javascript:void(0)", "tel:123"}
  /\ Trim(el.text) # <<>>

\* The type C12 gives a link
TypeAsStated(href, baseUrl) ==
  IF href = "#top" THEN "anchor"
  ELSE IF \/ (href \notin WithScheme /\ href \notin NetworkPath)
          \/ (href \in WithScheme /\ getHostname(href) = getHostname(baseUrl))
       THEN "internal"
  ELSE "external"

\* C12 (as stated): every collected link has the type decided by its href and
\* the base URL: anchor iff the href starts with '#'; internal iff it is not an
\* anchor and is relative (no scheme, not '//'-prefixed) or an absolute URL of
\* the base URL's hostname; external otherwise, so an absolute href with a
\* scheme and another host is external.
C12_AsStated ==
  LinksRan =>
    LET kept == SelectSeq(doc.linkEls, Collected)
    IN  /\ Len(links) = Len(kept)
        /\ \A i \in 1..Min(Len(links), Len(kept)) :
             links[i].type = TypeAsStated(kept[i].href.value, url)

\* An ftp: link to another host than the base URL's is typed internal
C12_Witness ==
  /\ LinksRan
  /\ url = "https://other.org/page"
  /\ doc.linkEls = <<A(Shown, Some("ftp://example.com/f"), <<"a">>, Absent)>>
  /\ Len(links) = 1
  /\ links[1].type = "internal"
  /\ getHostname("ftp://example.com/f") # getHostname(url)

----------------------------------------------------------------------------
(* analyzeKeywords on texts made of a few phrases, and on one text with more
   distinct repeated words than an n-gram list keeps *)

KeywordChunks ==
  { <<"b","u","y"," ","s","h","o","e","s"," ","o","n","l","i","n","e">>,
    <<"t","h","e">>,
    <<"a","b">>,
    <<"r","u","n">> }

\* The chunks of cs, a blank between two of them
RECURSIVE JoinChunks(_)
JoinChunks(cs) ==
  IF cs = <<>> THEN <<>>
  ELSE IF Len(cs) = 1 THEN cs[1]
  ELSE cs[1] \o <<" ">> \o JoinChunks(Tail(cs))

Letters == <<"a","b","c","d","e","f","g","h","i","j","k","l","m","n","o","p","q","r","s","t",
             "u","v","w","x","y","z">>

\* MAX_RESULTS_PER_NGRAM + 1 distinct three-letter words, the whole list twice,
\* a blank between two words
ManyWordsText ==
  [i \in 1..(8 * (MAX_RESULTS_PER_NGRAM + 1) - 1) |->
     IF i % 4 = 0 THEN " "
     ELSE Letters[(((i - 1) \div 4) % (MAX_RESULTS_PER_NGRAM + 1)) + 1]]

KeywordTexts ==
  {JoinChunks(cs) : cs \in SeqsUpTo(KeywordChunks, MaxChunks)} \cup {ManyWordsText}

InitKeywords ==
  /\ pc = "keywords:inputs"
  /\ allText \in KeywordTexts
  /\ readability = Null /\ issues = <<>> /\ schema = <<>>
  /\ AtRest

KeywordsAnalyze ==
  /\ pc = "keywords:inputs"
  /\ keywords' = analyzeKeywords(allText)
  /\ pc' = "keywords:done"
  /\ UNCHANGED <<html, url, doc, allText, metadata, headings, images, links, schema,
                 readability, issues, stats, result, thrown, score, done, last, order,
                 now, prev,
                 rating, webVars>>

NextKeywords == KeywordsAnalyze

SpecKeywords == InitKeywords /\ [][NextKeywords]_vars

\* The tokens of the text that are neither short nor stop words
FilteredTokens(text) ==
  SelectSeq(tokenize(text, 1), LAMBDA word : Len(word) >= 3 /\ word \notin STOP_WORDS)

\* p = part / total * 100 to two decimals, p in hundredths: the nearest one
IsPercentage(p, part, total) ==
  /\ 2 * (p * total - part * 10000) <= total
  /\ 2 * (part * 10000 - p * total) <= total

\* C13: for every keyword entry with nGram = n, percentage = count / base * 100
\* rounded to 2 decimals, base the number of filtered tokens for n = 1 and the
\* number of windows of size n (filtered tokens - n + 1) for n = 2, 3.
C13_PercentageBase ==
  pc = "keywords:done" =>
    LET f == Len(FilteredTokens(allText))
    IN  \A i \in 1..Len(keywords) :
          LET k == keywords[i]
              base == IF k.nGram = 1 THEN f ELSE f - k.nGram + 1
          IN  base > 0 /\ IsPercentage(k.percentage, k.count, base)

BuyShoesOnline == <<"b","u","y"," ","s","h","o","e","s"," ","o","n","l","i","n","e">>

\* "buy shoes online" three times, a stop word between: 9 filtered tokens,
\* 7 windows of size 3, 3 / 7 * 100 = 42.86
C13_Witness ==
  /\ pc = "keywords:done"
  /\ allText = JoinChunks(<<BuyShoesOnline, <<"t","h","e">>, BuyShoesOnline, <<"t","h","e">>,
                            BuyShoesOnline>>)
  /\ \E i \in 1..Len(keywords) :
       keywords[i] = [phrase |-> BuyShoesOnline, count |-> 3, percentage |-> 4286, nGram |-> 3]

\* The entries of the keyword list with nGram = n
EntriesOf(n) == SelectSeq(keywords, LAMBDA k : k.nGram = n)

\* The windows of size n over the filtered tokens, each as its phrase
WindowsOf(text, n) ==
  LET f == FilteredTokens(text)
  IN  [i \in 1..Max(0, Len(f) - n + 1) |-> JoinChunks(SubSeq(f, i, i + n - 1))]

\* C14: tokens shorter than 3 characters and stop words are removed before any
\* window is built: the n-gram entries are the phrases that occur at least twice
\* among the windows over the filtered tokens, with that number as count (tokens
\* separated only by removed tokens are adjacent), and no phrase holds a stop
\* word or a token shorter than 3 characters.
C14_FilterBeforeWindows ==
  pc = "keywords:done" =>
    \A n \in 1..3 :
      LET windows == WindowsOf(allText, n)
          entries == EntriesOf(n)
          repeated == {p \in {windows[i] : i \in 1..Len(windows)} :
                         Occurrences(windows, p) >= 2}
      IN  /\ \A i \in 1..Len(entries) :
               /\ entries[i].phrase \in repeated
               /\ entries[i].count = Occurrences(windows, entries[i].phrase)
               /\ Len(WordsOf(entries[i].phrase)) = n
               /\ \A w \in 1..Len(WordsOf(entries[i].phrase)) :
                    /\ Len(WordsOf(entries[i].phrase)[w]) >= 3
                    /\ WordsOf(entries[i].phrase)[w] \notin STOP_WORDS
          /\ Cardinality(repeated) <= 20 =>
               repeated = {entries[i].phrase : i \in 1..Len(entries)}

\* "run the ab run run": the first "run run" window spans the removed "the ab"
C14_Witness ==
  /\ pc = "keywords:done"
  /\ allText = JoinChunks(<<<<"r","u","n">>, <<"t","h","e">>, <<"a","b">>, <<"r","u","n">>,
                            <<"r","u","n">>>>)
  /\ \E i \in 1..Len(keywords) :
       /\ keywords[i].phrase = <<"r","u","n"," ","r","u","n">>
       /\ keywords[i].count = 2 /\ keywords[i].nGram = 2

\* C15: every keyword entry has nGram in {1, 2, 3}, count >= 2 and
\* 0 <= percentage <= 100; for each n there are at most 20 entries, in
\* non-increasing order of count; the list is the 1-gram entries, then the
\* 2-gram entries, then the 3-gram entries.
C15_KeywordListShape ==
  pc = "keywords:done" =>
    /\ \A i \in 1..Len(keywords) :
         /\ keywords[i].nGram \in {1, 2, 3}
         /\ keywords[i].count >= 2
         /\ 0 <= keywords[i].percentage /\ keywords[i].percentage <= 10000
    /\ \A n \in 1..3 :
         /\ Len(EntriesOf(n)) <= 20
         /\ \A i \in 1..(Len(EntriesOf(n)) - 1) :
              EntriesOf(n)[i].count >= EntriesOf(n)[i + 1].count
    /\ keywords = EntriesOf(1) \o EntriesOf(2) \o EntriesOf(3)

\* 21 distinct words, each twice: 20 of them are kept
C15_Witness ==
  /\ pc = "keywords:done"
  /\ allText = ManyWordsText
  /\ Len(SelectSeq(DistinctInOrder(FilteredTokens(allText), {}),
                   LAMBDA w : Occurrences(FilteredTokens(allText), w) >= 2)) = 21
  /\ Len(EntriesOf(1)) = 20
  /\ Len(EntriesOf(2)) = 20
  /\ Len(EntriesOf(3)) = 19

----------------------------------------------------------------------------
(* getSEOScoreRating on every score calculateSEOScore can return *)

Scores == 0..100

InitRating ==
  /\ pc = "rating:inputs"
  /\ score \in Scores
  /\ html = Null /\ url = "https://example.com/" /\ doc = Null /\ allText = <<>>
  /\ metadata = Null /\ headings = <<>> /\ images = <<>> /\ links = <<>>
  /\ schema = <<>> /\ readability = Null /\ keywords = <<>> /\ issues = <<>>
  /\ stats = Null /\ result = Null /\ thrown = <<>> /\ rating = Null
  /\ done = {} /\ last = "" /\ order = "source" /\ now = 0 /\ prev = NoPrev
  /\ WebAtRest

RatingGet ==
  /\ pc = "rating:inputs"
  /\ rating' = getSEOScoreRating(score)
  /\ pc' = "rating:done"
  /\ UNCHANGED <<html, url, doc, allText, metadata, headings, images, links, schema,
                 readability, keywords, issues, stats, result, thrown, score, done,
                 last, order, now, prev, webVars>>

NextRating == RatingGet

SpecRating == InitRating /\ [][NextRating]_vars

RatingDescriptions ==
  [Excellent |-> "Your page has excellent SEO!",
   Good |-> "Your page has good SEO with minor improvements possible.",
   Fair |-> "Your page needs some SEO improvements.",
   Poor |-> "Your page has significant SEO issues that need attention."]

\* C16: for every score in 0..100 getSEOScoreRating returns exactly one rating:
\* "Excellent" iff score >= 90, "Good" iff 75 <= score < 90, "Fair" iff
\* 50 <= score < 75, "Poor" iff score < 50, each with its fixed description.
C16_RatingBuckets ==
  pc = "rating:done" =>
    /\ rating.rating \in {"Excellent", "Good", "Fair", "Poor"}
    /\ rating.rating = "Excellent" <=> score >= 90
    /\ rating.rating = "Good" <=> (75 <= score /\ score < 90)
    /\ rating.rating = "Fair" <=> (50 <= score /\ score < 75)
    /\ rating.rating = "Poor" <=> score < 50
    /\ rating.description = RatingDescriptions[rating.rating]

C16_Witness ==
  /\ pc = "rating:done" /\ score = 75
  /\ rating.rating = "Good"
  /\ rating.description = "Your page has good SEO with minor improvements possible."

\* Empty or whitespace only
OnlyWhitespace(text) == \A i \in 1..Len(text) : text[i] = " "

\* C17: calculateReadability never divides by zero.  Empty or whitespace-only
\* text: fleschScore 0, gradeLevel "N/A", "No text content found", all
\* statistics 0.  Other text with zero sentences or zero words: fleschScore 0,
\* "N/A", "Insufficient text for analysis", both averages 0.  Every other record
\* was computed from sentences > 0 and words > 0.
C17_DegenerateReadability ==
  pc = "text:done" =>
    /\ OnlyWhitespace(allText) =>
         readability =
           [fleschScore |-> 0, gradeLevel |-> "N/A",
            interpretation |-> "No text content found",
            statistics |-> [sentences |-> 0, words |-> 0, syllables |-> 0,
                            avgWordsPerSentence |-> 0, avgSyllablesPerWord |-> 0]]
    /\ (~OnlyWhitespace(allText)
          /\ (countSentences(allText) = 0 \/ countWords(allText) = 0)) =>
         /\ readability.fleschScore = 0 /\ readability.gradeLevel = "N/A"
         /\ readability.interpretation = "Insufficient text for analysis"
         /\ readability.statistics.avgWordsPerSentence = 0
         /\ readability.statistics.avgSyllablesPerWord = 0
    /\ readability.gradeLevel # "N/A" =>
         /\ ~OnlyWhitespace(allText)
         /\ readability.statistics.sentences > 0
         /\ readability.statistics.words > 0

C17_Witness ==
  /\ pc = "text:done"
  /\ allText = <<" ", " ">>
  /\ readability.gradeLevel = "N/A"
  /\ readability.interpretation = "No text content found"
  /\ readability.statistics.words = 0

----------------------------------------------------------------------------
(* calculateReadability on texts made of a few sentences *)

\* countSyllables lower-cases a word; "T" is a consonant like "t"
FoxText ==
  <<"T","h","e"," ","q","u","i","c","k"," ","b","r","o","w","n"," ","f","o","x"," ",
    "j","u","m","p","s"," ","o","v","e","r"," ","t","h","e"," ","l","a","z","y"," ",
    "d","o","g",".">>

ProseChunks ==
  { <<"a"," ","a"," ","a"," ","b","a","b","a",".">>,
    <<"a"," ","a"," ","b","a","b","a"," ","b","a","b","a",".">>,
    <<"b","a","b","a">>,
    <<"a","!","?">>,
    <<" ">>,
    FoxText }

ProseTexts == {JoinChunks(cs) : cs \in SeqsUpTo(ProseChunks, MaxProseChunks)}

InitProse ==
  /\ pc = "text:inputs"
  /\ allText \in ProseTexts
  /\ readability = Null /\ issues = <<>> /\ schema = <<>>
  /\ AtRest

SpecProse == InitProse /\ [][NextText]_vars

\* C18 (as stated): in every non-degenerate record gradeLevel and interpretation
\* are the bucket of the fleschScore reported in the same record: the first of
\* 90, 80, 70, 60, 50, 30 that the reported score is >= to, else "College
\* graduate" / "Very Difficult".
C18_AsStated ==
  (pc = "text:done" /\ readability.gradeLevel # "N/A") =>
    /\ readability.gradeLevel = getGradeLevel(readability.fleschScore, 10)
    /\ readability.interpretation = getInterpretation(readability.fleschScore, 10)

\* 12 words, 3 sentences, 16 syllables: 89.975, reported as 90.0, labelled as
\* a score below 90
C18_Witness ==
  /\ pc = "text:done"
  /\ readability.statistics.words = 12
  /\ readability.statistics.sentences = 3
  /\ readability.statistics.syllables = 16
  /\ readability.fleschScore = 900
  /\ readability.gradeLevel = "6th grade"
  /\ readability.interpretation = "Easy to read. Conversational English for consumers."


\* The maximal runs of '.', '!' and '?' of a text, each named by its first index
PunctuationRuns(text) ==
  {i \in 1..Len(text) : text[i] \in SentenceEnders /\ (i = 1 \/ text[i - 1] \notin SentenceEnders)}

\* The whitespace-separated tokens of a text, each named by its first index
WhitespaceTokens(text) ==
  {i \in 1..Len(text) : text[i] \notin Whitespace /\ (i = 1 \/ text[i - 1] \in Whitespace)}

\* C19 (as stated): the sentence count is the number of maximal runs of '.', '!'
\* and '?', 1 when the text is non-empty and has no such run, 0 when the text is
\* empty; the word count is the number of whitespace-separated tokens.
C19_AsStated ==
  pc = "text:done" =>
    /\ readability.statistics.sentences =
         (IF allText = <<>> THEN 0
          ELSE IF PunctuationRuns(allText) = {} THEN 1
          ELSE Cardinality(PunctuationRuns(allText)))
    /\ readability.statistics.words = Cardinality(WhitespaceTokens(allText))

\* C19: the sentence count is the number of maximal runs of '.', '!' and '?', 1
\* when the text has a character that is not whitespace and no such run, 0 when
\* the text is empty or whitespace only; the word count is the number of
\* whitespace-separated tokens.
C19_SentenceAndWordCounts ==
  pc = "text:done" =>
    /\ readability.statistics.sentences =
         (IF WhitespaceTokens(allText) = {} THEN 0
          ELSE IF PunctuationRuns(allText) = {} THEN 1
          ELSE Cardinality(PunctuationRuns(allText)))
    /\ readability.statistics.words = Cardinality(WhitespaceTokens(allText))

C19_Witness ==
  /\ pc = "text:done"
  /\ allText = FoxText
  /\ readability.statistics.sentences = 1
  /\ readability.statistics.words = 9


----------------------------------------------------------------------------
(* analyzeSEO on documents that differ in their images only *)

ImageElements ==
  { Img(Shown, Some("a.png"), Some(<<"a">>)),
    Img(Shown, Some("a.png"), Absent),
    Img(Shown, Some("b.png"), Some(<<>>)),
    Img(Shown, Some("b.png"), Some(<<" ">>)),
    Img([Shown EXCEPT !.hidden = TRUE], Some("a.png"), Absent),
    Img(Shown, Absent, Absent) }

ImageHtmls ==
  {Html("ok", [EmptyDom EXCEPT !.imgEls = els]) : els \in SeqsUpTo(ImageElements, MaxImgEls)}
    \cup {Html("blank", EmptyDom)}

InitImages == InitCall(ImageHtmls, CallUrls, {"source"})

SpecImages == InitImages /\ [][NextCall]_vars

\* t, the number of collected images, and m, the number of them without alt text
CollectedImages == Len(images)

LackingAlt ==
  Cardinality({i \in 1..Len(images) :
                 images[i].alt.absent \/ \A k \in 1..Len(images[i].alt.value) :
                                           images[i].alt.value[k] \in Whitespace})

CriticalImageIssues ==
  Cardinality({i \in 1..Len(issues) :
                 issues[i].category = "images" /\ issues[i].severity = "critical"})

MissingAltWarnings ==
  Cardinality({i \in 1..Len(issues) :
                 /\ issues[i].category = "images" /\ issues[i].severity = "warning"
                 /\ issues[i].message.text = "images missing alt text"})

\* C20: with t collected images of which m lack alt text, the issue list holds
\* exactly one critical images issue and no missing-alt warning when m > 0 and
\* m/t > 50%, exactly one missing-alt warning and no critical images issue when
\* m > 0 and m/t <= 50%, and neither when m = 0 (t = 0 included).
C20_ImageAltIssues ==
  IssuesRan =>
    /\ (LackingAlt > 0 /\ 2 * LackingAlt > CollectedImages)
         => (CriticalImageIssues = 1 /\ MissingAltWarnings = 0)
    /\ (LackingAlt > 0 /\ 2 * LackingAlt <= CollectedImages)
         => (MissingAltWarnings = 1 /\ CriticalImageIssues = 0)
    /\ LackingAlt = 0 => (CriticalImageIssues = 0 /\ MissingAltWarnings = 0)

\* exactly half of the collected images lack alt text: a warning, no critical
C20_Witness ==
  /\ IssuesRan /\ pc = "done"
  /\ CollectedImages = 2 /\ LackingAlt = 1
  /\ MissingAltWarnings = 1 /\ CriticalImageIssues = 0


\* The img elements of the document that analyzeImages collects and whose alt
\* attribute is present but empty (alt="")
EmptyAltElements ==
  {i \in 1..Len(doc.imgEls) :
     /\ isElementVisible(doc.imgEls[i])
     /\ ~doc.imgEls[i].src.absent /\ doc.imgEls[i].src.value # ""
     /\ doc.imgEls[i].alt = Some(<<>>)}

EmptyAltRecommendations ==
  SelectSeq(issues, LAMBDA i : /\ i.category = "images" /\ i.severity = "recommendation"
                               /\ i.message.text = "image(s) with empty alt attribute")

\* C21 (as stated): when the document has at least one collected image whose alt
\* attribute is present but empty, the issue list holds exactly one images
\* recommendation, which reports the number of such images.
C21_AsStated ==
  (IssuesRan /\ EmptyAltElements # {}) =>
    /\ Len(EmptyAltRecommendations) = 1
    /\ EmptyAltRecommendations[1].message.args = <<Cardinality(EmptyAltElements)>>

\* a document whose only image has alt="": the analysis completes with a
\* missing-alt critical issue and no empty-alt recommendation
C21_Witness ==
  /\ pc = "done"
  /\ doc.imgEls = <<Img(Shown, Some("b.png"), Some(<<>>))>>
  /\ Len(images) = 1 /\ images[1].alt = Absent
  /\ EmptyAltRecommendations = <<>>
  /\ CriticalImageIssues = 1


\* The type C22 gives a parsed body: from @type, else from the @type values of
\* the @graph items that have one, flattened, else "Unknown"
StatedType(parsed) ==
  LET ty == Get(parsed, "@type")
      graph == Get(parsed, "@graph")
      items == IF graph.t = "array" THEN graph.v ELSE <<>>
      graphTypes == Flat(SelectSeq([i \in 1..Len(items) |-> Get(items[i], "@type")], Truthy))
  IN  IF Truthy(ty) THEN (IF ty.t = "array" THEN Joined(ty.v) ELSE <<ToStr(ty)>>)
      ELSE IF Len(graphTypes) > 0 THEN Joined(graphTypes)
      ELSE Unknown

SchemaRan == pc \in {"extract", "detected", "stats", "done"} /\ "schema" \in done

\* C22 (as stated): a record has isValid = true exactly when its script body is
\* syntactically valid JSON; every body that parses (one without @type, with a
\* non-array or empty @graph, or with @graph items that are null or lack @type
\* included) is recorded with isValid = true and the type derived from @type,
\* else from the flattened @graph types, else "Unknown".
C22_AsStated ==
  SchemaRan =>
    \A i \in 1..Len(schema) :
      /\ schema[i].isValid <=> JSONParse(schema[i].rawJson).ok
      /\ JSONParse(schema[i].rawJson).ok =>
           schema[i].type = StatedType(JSONParse(schema[i].rawJson).value)

\* a body that is valid JSON with a null @graph item is recorded as invalid
C22_Witness ==
  /\ pc = "done"
  /\ doc.scripts = <<"{\"@graph\":[null]}">>
  /\ JSONParse(doc.scripts[1]).ok
  /\ Len(result.schema) = 1
  /\ ~result.schema[1].isValid
  /\ result.schema[1].parsed = JNull
  /\ ~result.schema[1].error.absent
  /\ WithText(result.issues, "invalid JSON-LD schema(s)") # <<>>


\* Some entry of a sequence of heading elements lies more than one level below
\* the entry before it
SkipsALevel(els) == \E i \in 2..Len(els) : els[i].level > els[i - 1].level + 1

HierarchyWarnings ==
  SelectSeq(issues, LAMBDA i : /\ i.severity = "warning" /\ i.category = "structure"
                               /\ i.message.text = "Heading hierarchy skips levels")

\* C23 (as stated): the heading-hierarchy warning is emitted exactly when, in the
\* sequence of visible headings in document order, some heading's level exceeds
\* the level of the visible heading before it by more than 1; at most one such
\* warning is emitted.
C23_AsStated ==
  IssuesRan =>
    LET visible == SelectSeq(doc.headingEls, InView)
    IN  Len(HierarchyWarnings) = (IF SkipsALevel(visible) THEN 1 ELSE 0)

\* C23: the heading-hierarchy warning is emitted exactly when, in the sequence
\* of the visible headings with non-empty trimmed text in document order, some
\* heading's level exceeds the level of the one before it by more than 1; a
\* first heading of any level, a decrease and an increase by at most 1 do not
\* trigger it, and at most one warning is emitted however many skips occur.
C23_HierarchyWarning ==
  IssuesRan =>
    LET collected == SelectSeq(doc.headingEls, LAMBDA el : InView(el) /\ Trim(el.text) # <<>>)
    IN  Len(HierarchyWarnings) = (IF SkipsALevel(collected) THEN 1 ELSE 0)

\* h1, h3, h6: two skips, one warning
C23_Witness ==
  /\ pc = "done"
  /\ doc.headingEls = <<H(1, Shown, <<"a">>), H(3, Shown, <<"a">>), H(6, Shown, <<"a">>)>>
  /\ Len(headings) = 3
  /\ Len(HierarchyWarnings) = 1


----------------------------------------------------------------------------
(* analyzeSEO on documents that differ in their <meta> elements only.  The
   elements differ in their content, so an entry of MetaData.other names the
   element it was made from. *)

OtherMetaElements ==
  { Meta("description", "", 130),
    Meta("", "description", 131),
    Meta("", "robots", 9),
    Meta("viewport", "", 20),
    Meta("author", "", 5),
    Meta("", "og:title", 12),
    Meta("twitter:card", "", 7),
    Meta("keywords", "", 0),
    [Meta("", "", 8) EXCEPT !.charset = Some("utf-8")],
    [Meta("", "", 24) EXCEPT !.httpEquiv = Some("Content-Type"),
                             !.contentCharset = Some("utf-8")] }

OtherHtmls ==
  {Html("ok", [EmptyDom EXCEPT !.metas = ms]) : ms \in SeqsUpTo(OtherMetaElements, MaxMetaEls)}
    \cup {Html("blank", EmptyDom)}

InitOther == InitCall(OtherHtmls, {"https://example.com/"}, {"source"})

SpecOther == InitOther /\ [][NextCall]_vars

MetadataRan == pc \in {"extract", "detected", "stats", "done"} /\ "metadata" \in done

\* The element MetaData takes the named field from: the first one matching by
\* name, else the first one matching by property; 0 when there is none or its
\* content is empty
CapturedAs(field) ==
  LET byName == {k \in 1..Len(doc.metas) : doc.metas[k].name = field}
      byProp == {k \in 1..Len(doc.metas) : doc.metas[k].property = field}
      hit == IF byName # {} THEN byName ELSE byProp
      k == IF hit = {} THEN 0 ELSE CHOOSE i \in hit : \A j \in hit : i <= j
  IN  IF k # 0 /\ doc.metas[k].content # 0 THEN k ELSE 0

\* MetaData.other holds an entry made from the element
InOther(el) ==
  \E i \in 1..Len(metadata.other) :
    /\ metadata.other[i].content = el.content
    /\ metadata.other[i].name = OrUndefinedStr(Some(el.name))
    /\ metadata.other[i].property = OrUndefinedStr(Some(el.property))

Prefixed(el) ==
  \/ el.name \in {"og:title", "og:image", "twitter:card"}
  \/ el.property \in {"og:title", "og:image", "twitter:card"}

\* C24 (as stated): MetaData.other never holds a tag captured as description,
\* keywords, robots or viewport, whether it matched by name or by the property
\* fallback, nor a tag whose name or property starts with og: or twitter:, nor
\* a tag with a charset or http-equiv attribute.
C24_AsStated ==
  MetadataRan =>
    \A k \in 1..Len(doc.metas) :
      (\/ k \in {CapturedAs(f) : f \in excludedNames}
       \/ Prefixed(doc.metas[k])
       \/ ~doc.metas[k].charset.absent
       \/ ~doc.metas[k].httpEquiv.absent)
        => ~InOther(doc.metas[k])

\* <meta property="description" content="..."> is the description and is
\* also listed under other
C24_Witness ==
  /\ pc = "done"
  /\ doc.metas = <<Meta("", "description", 131)>>
  /\ result.metadata.description = Some(131)
  /\ result.metadata.other = <<[name |-> Absent, property |-> Some("description"), content |-> 131]>>


----------------------------------------------------------------------------
(* The proxy route serving GET requests while the wall clock advances *)

HeaderSets ==
  [xForwardedFor : {Absent, Some(""), Some("1.1.1.1")}, xRealIp : {Absent, Some("1.1.1.1")}]

Targets == {"missing", "ftp", "ok", "down"}

InitProxy ==
  /\ pc = "proxy"
  /\ allText = <<>> /\ readability = Null /\ issues = <<>> /\ schema = <<>>
  /\ SeoAtRest
  /\ ProxyAtRest /\ FetchAtRest /\ PageAtRest

\* GET(request): the rate limit check comes before everything else and before
\* the first await
ProxyGET ==
  /\ pc = "proxy"
  /\ \E headers \in HeaderSets, target \in Targets :
       LET ip == ClientKey(headers)
           check == checkRateLimit(rateLimitMap, ip, clock)
       IN  /\ rateLimitMap' = check.map
           /\ reply' = IF ~check.allowed
                       THEN [ip |-> ip, status |-> 429, fetched |-> FALSE]
                       ELSE [ip |-> ip, status |-> TargetStatus(target).status,
                             fetched |-> TargetStatus(target).fetched]
  /\ UNCHANGED <<seoVars, clock, fetchVars, pageVars>>

\* Time passes: half a window at a time
ProxyTick ==
  /\ pc = "proxy"
  /\ clock < MaxTicks * (RATE_LIMIT_WINDOW \div 2)
  /\ clock' = clock + RATE_LIMIT_WINDOW \div 2
  /\ UNCHANGED <<seoVars, rateLimitMap, reply, fetchVars, pageVars>>

NextProxy == ProxyGET \/ ProxyTick

SpecProxy == InitProxy /\ [][NextProxy]_vars

\* The step is the handling of a request of the client key ip
Served(ip) == clock' = clock /\ reply' # Null /\ reply'.ip = ip

CountWithinLimit ==
  \A ip \in ClientKeys : ~rateLimitMap[ip].none => rateLimitMap[ip].count \in 1..10

RateLimitStep ==
  \A ip \in ClientKeys :
    Served(ip) =>
      LET record == rateLimitMap[ip]
          inWindow == ~record.none /\ clock <= record.resetTime
      IN  /\ (inWindow /\ record.count >= 10) =>
                /\ reply'.status = 429 /\ ~reply'.fetched
                /\ rateLimitMap' = rateLimitMap
          /\ (inWindow /\ record.count < 10) =>
                /\ reply'.status # 429
                /\ rateLimitMap'[ip] = Record(record.count + 1, record.resetTime)
          /\ ~inWindow =>
                /\ reply'.status # 429
                /\ rateLimitMap'[ip] = Record(1, clock + 60000)
          /\ \A other \in ClientKeys \ {ip} : rateLimitMap'[other] = rateLimitMap[other]

\* C25: the stored count of a client key never exceeds 10; a request arriving in
\* a window in which 10 have been admitted is answered 429, leaves the count
\* unchanged and fetches nothing; a request in a window with fewer is admitted
\* and counted; the first request after the reset time is admitted and starts a
\* window of 60 seconds with count 1; a request changes no other key's record.
C25_RateLimit == []CountWithinLimit /\ [][RateLimitStep]_vars

\* in its second window a client has used up its 10 requests and is refused,
\* while the other client's record is still the one of its single request
C25_Witness ==
  /\ pc = "proxy"
  /\ rateLimitMap["1.1.1.1"] = Record(10, 90000 + 60000)
  /\ rateLimitMap["unknown"] = Record(1, 60000)
  /\ reply = [ip |-> "1.1.1.1", status |-> 429, fetched |-> FALSE]


----------------------------------------------------------------------------
(* fetchHTMLWithFallback on a URL, whatever the network does *)

RawUrls ==
  [padded : BOOLEAN, prefix : {"", "//", "http://", "https://"},
   rest : {"example.com/", "other.org/page"}]

NetworkEvents == {"ok", "not-ok", "failed-to-fetch", "abort", "non-error"}

Networks == [first : NetworkEvents, second : NetworkEvents, body : {"html", "empty", "too-large"}]

InitFetch ==
  /\ pc = "fetch"
  /\ allText = <<>> /\ readability = Null /\ issues = <<>> /\ schema = <<>>
  /\ SeoAtRest /\ ProxyAtRest /\ PageAtRest
  /\ fetchPc = "call"
  /\ fetchArg \in RawUrls
  /\ fetchLog = <<>> /\ directResult = Null /\ fetchOutcome = Null

\* await directFetch(normalized) settles: return its result, fall back to the
\* proxy after a CORS_ERROR, rethrow anything else
FallbackDirect ==
  /\ fetchPc = "call"
  /\ \E net \in Networks :
       LET r == directFetch(normalizeUrl(fetchArg), net)
       IN  /\ directResult' = r
           /\ fetchLog' = Append(fetchLog, "direct")
           /\ IF r.ok THEN fetchPc' = "returned" /\ fetchOutcome' = r
              ELSE IF isCorsError(r) THEN fetchPc' = "proxy" /\ fetchOutcome' = fetchOutcome
              ELSE fetchPc' = "thrown" /\ fetchOutcome' = r
  /\ UNCHANGED <<seoVars, proxyVars, pageVars, fetchArg>>

\* await proxyFetch(normalized) settles
FallbackProxy ==
  /\ fetchPc = "proxy"
  /\ \E net \in Networks :
       LET r == proxyFetch(normalizeUrl(fetchArg), net)
       IN  /\ fetchLog' = Append(fetchLog, "proxy")
           /\ fetchOutcome' = r
           /\ fetchPc' = IF r.ok THEN "returned" ELSE "thrown"
  /\ UNCHANGED <<seoVars, proxyVars, pageVars, fetchArg, directResult>>

NextFetch == FallbackDirect \/ FallbackProxy

SpecFetch == InitFetch /\ [][NextFetch]_vars

Settled == fetchPc \in {"returned", "thrown"}

\* C26: the direct fetch is attempted first; the proxy fetch is attempted iff the
\* direct fetch failed with a FetchError of type CORS_ERROR, and then once; a
\* direct failure of type TIMEOUT, NETWORK_ERROR or UNKNOWN is rethrown unchanged
\* with no proxy attempt; a successful direct fetch returns strategy 'direct'
\* with no proxy attempt.
C26_FallbackOrder ==
  pc = "fetch" =>
    /\ fetchLog \in {<<>>, <<"direct">>, <<"direct", "proxy">>}
    /\ fetchLog = <<>> <=> fetchPc = "call"
    /\ fetchPc = "proxy" => (fetchLog = <<"direct">> /\ ~directResult.ok /\ directResult.type = "CORS_ERROR")
    /\ Settled =>
         /\ fetchLog = <<"direct", "proxy">> <=> (~directResult.ok /\ directResult.type = "CORS_ERROR")
         /\ directResult.ok =>
              /\ fetchPc = "returned" /\ fetchOutcome = directResult
              /\ fetchOutcome.strategy = "direct" /\ fetchLog = <<"direct">>
         /\ (~directResult.ok /\ directResult.type \in {"TIMEOUT", "NETWORK_ERROR", "UNKNOWN"}) =>
              /\ fetchPc = "thrown" /\ fetchOutcome = directResult
              /\ fetchLog = <<"direct">>
         /\ fetchLog = <<"direct", "proxy">> =>
              (fetchOutcome.ok => fetchOutcome.strategy = "proxy")

\* the direct fetch was blocked by CORS and the proxy delivered the page
C26_Witness ==
  /\ pc = "fetch" /\ fetchPc = "returned"
  /\ directResult = FetchError("CORS_ERROR", "CORS policy blocked this request")
  /\ fetchLog = <<"direct", "proxy">>
  /\ fetchOutcome = FetchResult("proxy", Url("https://", "example.com/"))
  /\ fetchArg = [padded |-> TRUE, prefix |-> "", rest |-> "example.com/"]


\* C27: for every text that is not whitespace only, countSentences >= 1,
\* countWords >= 1 and the total syllable count is at least the word count,
\* countSyllables being at least 1 for every word; calculateReadability returns
\* the "Insufficient text for analysis" record for no input.
C27_CountsArePositive ==
  pc = "text:done" =>
    /\ readability.interpretation # "Insufficient text for analysis"
    /\ ~OnlyWhitespace(allText) =>
         /\ countSentences(allText) >= 1
         /\ countWords(allText) >= 1
         /\ \A i \in 1..Len(WordsOf(allText)) : countSyllables(WordsOf(allText)[i]) >= 1
         /\ countTotalSyllables(allText) >= countWords(allText)
         /\ readability.statistics.sentences = countSentences(allText)
         /\ readability.statistics.words = countWords(allText)
         /\ readability.statistics.syllables = countTotalSyllables(allText)
         /\ readability.statistics.syllables >= readability.statistics.words

\* "bbes": the suffix rule leaves "b", no vowel group is matched, one syllable
C27_Witness ==
  /\ pc = "text:done"
  /\ allText = <<"b", "b", "e", "s">>
  /\ StripSuffix(allText) = <<"b">>
  /\ readability.statistics = [sentences |-> 1, words |-> 1, syllables |-> 1,
                               avgWordsPerSentence |-> 10, avgSyllablesPerWord |-> 100]


----------------------------------------------------------------------------
(* analyzeSEO on documents that differ in images, links, headings and scripts *)

StatImageElements ==
  { Img(Shown, Some("a.png"), Some(<<"a">>)), Img(Shown, Some("b.png"), Some(<<" ">>)) }

StatLinkElements ==
  { A(Shown, Some("#top"), <<"a">>, Absent),
    A(Shown, Some("/about"), <<"a">>, Absent),
    A(Shown, Some("https://other.org/"), <<"a">>, Absent) }

StatHeadingSamples ==
  { <<>>, <<H(1, Shown, <<"a">>)>>, <<H(1, Shown, <<"a">>), H(1, Shown, <<"b">>)>>,
    <<H(2, Shown, <<"a">>), H(1, [Shown EXCEPT !.hidden = TRUE], <<"a">>)>> }

StatHtmls ==
  {Html("ok", [EmptyDom EXCEPT !.imgEls = is, !.linkEls = ls, !.headingEls = hs, !.scripts = ss]) :
     is \in SeqsUpTo(StatImageElements, MaxStatEls), ls \in SeqsUpTo(StatLinkElements, MaxStatEls),
     hs \in StatHeadingSamples, ss \in SchemaScriptSamples}
    \cup {Html("blank", EmptyDom)}

InitStats == InitCall(StatHtmls, {"https://example.com/"}, {"source"})

SpecStats == InitStats /\ [][NextCall]_vars

\* The number of entries of a list that satisfy a test, counted on the indices
NumImagesMissingAlt(imgs) ==
  Cardinality({i \in 1..Len(imgs) :
                 imgs[i].alt.absent \/ \A k \in 1..Len(imgs[i].alt.value) :
                                         imgs[i].alt.value[k] \in Whitespace})

NumLinksOfType(ls, type) == Cardinality({i \in 1..Len(ls) : ls[i].type = type})

\* C28: in every AnalysisResult totalImages = images.length = imagesWithAlt +
\* imagesWithoutAlt; totalLinks = links.length = internalLinks + externalLinks +
\* anchorLinks; h1Count = number of headings of level 1; schemaCount = number of
\* schema records with isValid = true; imagesWithoutAlt = the missing-alt count
\* of the image issue rule.
C28_StatisticsConsistent ==
  pc = "done" =>
    LET s == result.stats
        altIssues == SelectSeq(result.issues, LAMBDA i :
                       i.message.text \in {"images missing alt text", "images missing alt text (%)"})
    IN  /\ s.totalImages = Len(result.images)
        /\ s.totalImages = s.imagesWithAlt + s.imagesWithoutAlt
        /\ s.imagesWithoutAlt = NumImagesMissingAlt(result.images)
        /\ Len(altIssues) = (IF s.imagesWithoutAlt > 0 THEN 1 ELSE 0)
        /\ \A k \in 1..Len(altIssues) :
             /\ altIssues[k].message.args[1] = s.imagesWithoutAlt
             /\ altIssues[k].message.args[2] = s.totalImages
        /\ s.totalLinks = Len(result.links)
        /\ s.totalLinks = s.internalLinks + s.externalLinks + s.anchorLinks
        /\ s.internalLinks = NumLinksOfType(result.links, "internal")
        /\ s.externalLinks = NumLinksOfType(result.links, "external")
        /\ s.anchorLinks = NumLinksOfType(result.links, "anchor")
        /\ s.h1Count = Cardinality({i \in 1..Len(result.headings) : result.headings[i].level = 1})
        /\ s.schemaCount = Cardinality({i \in 1..Len(result.schema) : result.schema[i].isValid})

\* two images, one with a blank alt; an anchor and an external link; two h1;
\* an invalid and a valid schema
C28_Witness ==
  /\ pc = "done"
  /\ result.stats.totalImages = 2 /\ result.stats.imagesWithAlt = 1
  /\ result.stats.imagesWithoutAlt = 1
  /\ result.images[2].alt = Some(<<" ">>)
  /\ result.stats.totalLinks = 2 /\ result.stats.anchorLinks = 1
  /\ result.stats.externalLinks = 1 /\ result.stats.internalLinks = 0
  /\ result.stats.h1Count = 2
  /\ Len(result.schema) = 2 /\ result.stats.schemaCount = 1


EmptyHeadingWarnings(is) ==
  SelectSeq(is, LAMBDA i : /\ i.severity = "warning" /\ i.category = "content"
                           /\ i.message.text = "Found empty heading(s)")

\* A heading list built by hand, with an entry whose text is empty
HandBuiltHeadings ==
  <<[level |-> 1, text |-> <<"a">>, wordCount |-> 1], [level |-> 2, text |-> <<>>, wordCount |-> 0]>>

\* C29: no issue list of analyzeSEO holds the empty-heading warning, since the
\* heading list detectIssues receives has no entry with empty trimmed text; the
\* rule fires when detectIssues is given a hand-built list with such an entry.
C29_NoEmptyHeadingWarning ==
  /\ HeadingsRan => \A i \in 1..Len(headings) : Trim(headings[i].text) # <<>>
  /\ IssuesRan => EmptyHeadingWarnings(issues) = <<>>
  /\ pc = "done" => EmptyHeadingWarnings(result.issues) = <<>>
  /\ EmptyHeadingWarnings(detectIssues(extractMetadata(EmptyDom), HandBuiltHeadings,
                                       <<>>, <<>>, <<>>))
       = <<Issue("warning", "content", "Found empty heading(s)", <<1>>)>>

\* a document with a visible <h2> holding only a blank: analysed, no warning
C29_Witness ==
  /\ pc = "done"
  /\ doc.headingEls = <<H(1, Shown, <<"a">>), H(2, Shown, <<" ">>)>>
  /\ Len(result.headings) = 1
  /\ EmptyHeadingWarnings(result.issues) = <<>>


----------------------------------------------------------------------------
(* The analyzer page: the user types, submits and clicks while fetches settle *)

PageUrls == {"https://example.com/", "https://example.com/a", "https://other.org/",
             "https://other.org/page"}

FetchErrorTypes == {"CORS_ERROR", "TIMEOUT", "NETWORK_ERROR", "UNKNOWN"}

InitPage ==
  /\ pc = "page"
  /\ allText = <<>> /\ readability = Null /\ issues = <<>> /\ schema = <<>>
  /\ SeoAtRest /\ ProxyAtRest /\ FetchAtRest /\ PageAtRest

\* The synchronous head of analyzeUrl(urlToAnalyze), up to its first await
analyzeUrlStart(urlToAnalyze) ==
  /\ isLoading' = TRUE
  /\ pageError' = Null
  /\ pageResult' = Null
  /\ sitemap' = <<>>
  /\ showSitemap' = FALSE
  /\ running' = [urlToAnalyze |-> urlToAnalyze]

\* handleUrlChange: the input is disabled while loading
HandleUrlChange ==
  /\ pc = "page" /\ ~isLoading
  /\ \E newUrl \in PageUrls \cup {""} : pageUrl' = newUrl
  /\ UNCHANGED <<seoVars, proxyVars, fetchVars, isLoading, pageError, pageResult, sitemap,
                 showSitemap, running, sitemapFetches>>

\* handleAnalyze: the submit button is disabled while loading or with no URL
HandleAnalyze ==
  /\ pc = "page" /\ ~isLoading /\ pageUrl # ""
  /\ analyzeUrlStart(pageUrl)
  /\ UNCHANGED <<seoVars, proxyVars, fetchVars, pageUrl, sitemapFetches>>

\* analyzeUrl after its awaits, fetch and analysis succeeded: the result is set
\* and fetchSitemap is started in the background
AnalyzeUrlDone ==
  /\ pc = "page" /\ running # Null
  /\ pageResult' = [url |-> running.urlToAnalyze]
  /\ sitemapFetches' = sitemapFetches \cup {running.urlToAnalyze}
  /\ isLoading' = FALSE
  /\ running' = Null
  /\ UNCHANGED <<seoVars, proxyVars, fetchVars, pageUrl, pageError, sitemap, showSitemap>>

\* analyzeUrl after its awaits, the fetch or the analysis threw
AnalyzeUrlFailed ==
  /\ pc = "page" /\ running # Null
  /\ \E type \in FetchErrorTypes : pageError' = [type |-> type]
  /\ isLoading' = FALSE
  /\ running' = Null
  /\ UNCHANGED <<seoVars, proxyVars, fetchVars, pageUrl, pageResult, sitemap, showSitemap,
                 sitemapFetches>>

\* The then-callback of a background fetchSitemap
SitemapSettles ==
  /\ pc = "page"
  /\ \E baseUrl \in sitemapFetches, found \in BOOLEAN :
       LET sitemapResult == fetchSitemap(baseUrl, found)
       IN  /\ sitemap' = IF sitemapResult.found THEN sitemapResult.urls ELSE sitemap
           /\ sitemapFetches' = sitemapFetches \ {baseUrl}
  /\ UNCHANGED <<seoVars, proxyVars, fetchVars, pageUrl, isLoading, pageError, pageResult,
                 showSitemap, running>>

\* The View/Hide Sitemap button, rendered with a result, not loading, list non-empty
ToggleSitemap ==
  /\ pc = "page" /\ pageResult # Null /\ ~isLoading /\ Len(sitemap) > 0
  /\ showSitemap' = ~showSitemap
  /\ UNCHANGED <<seoVars, proxyVars, fetchVars, pageUrl, isLoading, pageError, pageResult,
                 sitemap, running, sitemapFetches>>

\* handleSitemapUrlClick on an entry of the list that is shown
HandleSitemapUrlClick ==
  /\ pc = "page" /\ pageResult # Null /\ ~isLoading /\ showSitemap /\ Len(sitemap) > 0
  /\ \E i \in 1..Len(sitemap) :
       /\ pageUrl' = sitemap[i]
       /\ analyzeUrlStart(sitemap[i])
  /\ UNCHANGED <<seoVars, proxyVars, fetchVars, sitemapFetches>>

NextPage ==
  \/ HandleUrlChange \/ HandleAnalyze \/ AnalyzeUrlDone \/ AnalyzeUrlFailed
  \/ SitemapSettles \/ ToggleSitemap \/ HandleSitemapUrlClick

SpecPage == InitPage /\ [][NextPage]_vars

\* C30 (as stated): whenever a non-empty sitemap list is held together with a
\* displayed result, the list was fetched for the displayed result's URL.
C30_AsStated ==
  (pc = "page" /\ pageResult # Null /\ Len(sitemap) > 0) =>
    sitemap = fetchSitemap(pageResult.url, TRUE).urls

\* the result of other.org is displayed with the sitemap of example.com, and no
\* fetch is left that could replace it
C30_Witness ==
  /\ pc = "page" /\ ~isLoading /\ running = Null /\ sitemapFetches = {}
  /\ pageResult = [url |-> "https://other.org/page"]
  /\ sitemap = <<"https://example.com/", "https://example.com/a">>

====
